---- MODULE Spec2Model ----
(***************************************************************************)
(* A model of the AI-Overlay copilot: the suggestion engine                *)
(* (src/ai_engine.py), the application object that wires the sensors to    *)
(* it (src/.history/main_20250727223139.py), and the parts of the audio    *)
(* sensor, the keyboard handler and the overlay window those call.         *)
(*                                                                         *)
(* Time.  The code reads time.time() and compares differences with         *)
(* rate_limit_delay.  The model keeps differences only: a clock holds the  *)
(* time elapsed since the event it measures, counted in ticks and          *)
(* saturating once the value can no longer change any comparison.          *)
(***************************************************************************)
EXTENDS Integers, Sequences, FiniteSets, TLC

\* ------------------------------------------------------------------ bounds

\* Ticks of the model's clock per second of the program's clock.
TicksPerSecond == 1

\* How long (in ticks) a provider invocation is remembered in the history
\* of invocations after it started.
HistoryTicks == 2

\* How many of the application's worker threads (audio, keyboard, suggestion
\* loop, main loop) are inside a handler or an engine call at a time.
MaxBusy == 2

\* ------------------------------------------------------- program constants

\* self.rate_limit_delay = 1.0 (seconds between requests), in ticks.
RateLimitDelay == 1 * TicksPerSecond

\* Config.ENABLE_CACHING
ENABLE_CACHING == TRUE

\* Config.CACHE_TTL = 300 (seconds), in ticks.
CACHE_TTL == 300 * TicksPerSecond

Min(a, b) == IF a < b THEN a ELSE b

\* ---------------------------------------------------------------- threads

\* Callers of the engine's public operations when the engine is driven
\* directly through its interface.
Clients == {"c1", "c2"}

\* The application's threads that call the engine: the suggestion loop,
\* the audio thread (voice-command callback) and the main loop.
AppCallers == {"sugg", "audio", "mainloop"}

Callers == Clients \cup AppCallers

\* ------------------------------------------------------------------ values

None == "None"

\* Screen contexts handed to the engine (dictionaries; only the keys the
\* prompt and the application read are kept).
EmptyContext == [keys |-> {}, text_content |-> "", code_detected |-> FALSE,
                 language |-> None, error_indicators |-> {}, code_snippets |-> <<>>]

CtxError == [keys |-> {"timestamp", "text_content", "code_detected", "file_type",
                       "error_indicators", "suggestions_context", "language",
                       "code_snippets"},
             text_content |-> "def f error:", code_detected |-> TRUE,
             language |-> "python", error_indicators |-> {"Error"},
             code_snippets |-> <<>>]

\* An analysis of a screen that shows code and no error.
CtxCode == [keys |-> {"timestamp", "text_content", "code_detected", "file_type",
                      "error_indicators", "suggestions_context", "language",
                      "code_snippets"},
            text_content |-> "function main() { return }", code_detected |-> TRUE,
            language |-> "javascript", error_indicators |-> {},
            code_snippets |-> <<"function main() { return }">>]

\* The analysis _analyze_screen_content returns when OCR is disabled or
\* image_to_string raises: the six keys it starts from, at their defaults
\* (no "language", no "code_snippets").
CtxBare == [keys |-> {"timestamp", "text_content", "code_detected", "file_type",
                      "error_indicators", "suggestions_context"},
            text_content |-> "", code_detected |-> FALSE,
            language |-> None, error_indicators |-> {},
            code_snippets |-> <<>>]

\* bool(context): a dictionary is true when it has a key.
Truthy(context) == context.keys # {}

\* Recognised utterances.
Texts == {"fix this"}

\* ---------------------------------------------------- provider responses

\* A suggestion as the provider's JSON carries it: a dictionary that may
\* lack keys.
RawTitled == [title |-> "Use a colon", priority |-> "high"]
RawUntitled == [description |-> "no title here"]

\* The text the provider returns (`body`), with what json.loads makes of it.
\*   kind "text": json.loads raises JSONDecodeError;
\*   kind "json": json.loads returns an object, whose keys are `dkeys`;
\*     `nulls` are the keys whose value is null.
\*   `confidence` is in tenths (9 is 0.9).
RespText == [kind |-> "text", body |-> "Use a colon after if statements",
             dkeys |-> {}, nulls |-> {}, suggestions |-> <<>>, fixes |-> <<>>,
             summary |-> "", confidence |-> 0]
RespJson == [kind |-> "json", body |-> "{json1}",
             dkeys |-> {"suggestions", "summary", "confidence"}, nulls |-> {},
             suggestions |-> <<RawTitled, RawUntitled>>, fixes |-> <<>>,
             summary |-> "two issues", confidence |-> 9]
RespJsonEmpty == [kind |-> "json", body |-> "{json0}",
                  dkeys |-> {"suggestions"}, nulls |-> {},
                  suggestions |-> <<>>, fixes |-> <<>>,
                  summary |-> "", confidence |-> 0]
RespFixes == [kind |-> "json", body |-> "{fixes}",
              dkeys |-> {"fixes", "prevention"}, nulls |-> {},
              suggestions |-> <<>>,
              fixes |-> <<[description |-> "add colon", code |-> ":"]>>,
              summary |-> "", confidence |-> 0]

\* s repeated n times.
RECURSIVE Repeat(_, _)
Repeat(s, n) == IF n = 0 THEN "" ELSE s \o Repeat(s, n - 1)

\* A text longer than the summary of a batch may be (260 characters).
RespLongText == [kind |-> "text", body |-> Repeat("Use a colon. ", 20),
                 dkeys |-> {}, nulls |-> {}, suggestions |-> <<>>,
                 fixes |-> <<>>, summary |-> "", confidence |-> 0]
\* An empty response.
RespEmpty == [kind |-> "text", body |-> "",
              dkeys |-> {}, nulls |-> {}, suggestions |-> <<>>, fixes |-> <<>>,
              summary |-> "", confidence |-> 0]
\* A text that opens like an object and is no JSON.
RespInvalidJson == [kind |-> "text", body |-> "{ suggestions: [",
                    dkeys |-> {}, nulls |-> {}, suggestions |-> <<>>,
                    fixes |-> <<>>, summary |-> "", confidence |-> 0]
\* An object after white space.
RespJsonPadded == [kind |-> "json", body |-> " \n{json2}",
                   dkeys |-> {"suggestions", "summary"}, nulls |-> {},
                   suggestions |-> <<RawTitled>>, fixes |-> <<>>,
                   summary |-> "one issue", confidence |-> 0]
\* An object whose "suggestions" is null.
RespJsonNull == [kind |-> "json", body |-> "{null}",
                 dkeys |-> {"suggestions", "summary"}, nulls |-> {"suggestions"},
                 suggestions |-> <<>>, fixes |-> <<>>,
                 summary |-> "nothing", confidence |-> 0]

Responses == {RespText, RespJson, RespJsonEmpty, RespFixes, RespLongText,
              RespEmpty, RespInvalidJson, RespJsonPadded, RespJsonNull}

\* What a provider call can end with: an exception or a response text.
Raise == [kind |-> "raise", body |-> "network", dkeys |-> {}, nulls |-> {},
          suggestions |-> <<>>, fixes |-> <<>>, summary |-> "", confidence |-> 0]
\* The exceptions of the provider's client: authentication, time-out, rate
\* limit (and the network error above).
RaiseAuth == [Raise EXCEPT !.body = "auth"]
RaiseTimeout == [Raise EXCEPT !.body = "timeout"]
RaiseRateLimit == [Raise EXCEPT !.body = "rate_limit"]
Raises == {Raise, RaiseAuth, RaiseTimeout, RaiseRateLimit}
Outcomes == Responses \cup Raises

\* ------------------------------------------------------------- variables

VARIABLES
  \* AIEngine
  is_initialized,        \* self.is_initialized
  elapsed_since_request, \* time.time() - self.last_request_time, saturating
                         \* at RateLimitDelay
  suggestion_cache,      \* self.suggestion_cache: an entry per key stored,
                         \* with the time since it was stored
  eng,                   \* per caller: where its call of an engine operation is
  \* History of the engine's use (read by the properties only)
  served,                \* the generate requests that returned a batch less
                         \* than HistoryTicks ago, each with its age
  last_invocation,       \* per caller: the operation of its latest provider
                         \* invocation and the time since it started
  repeat_call,           \* per caller: its current call was entered after an
                         \* identical generate request had been served
  \* RealTimeCopilot
  is_running,            \* self.is_running
  is_active,             \* self.is_active
  current_context,       \* self.current_context
  last_suggestions,      \* self.last_suggestions
  \* The components the application object owns
  screen_context,        \* ScreenMonitor.current_context
  is_monitoring,         \* ScreenMonitor.is_monitoring
  is_listening,          \* AudioProcessor.is_listening
  hotkeys,               \* KeyboardHandler: the actions whose hotkey is
                         \* registered with the keyboard library
  callbacks,             \* KeyboardHandler.callbacks: the actions that have one
  overlay,               \* OverlayUI: root, is_visible and its fade threads
  pc,                    \* per thread: the statement it is at
  called,                \* per handler thread: the overlay method its latest
                         \* step called, with the suggestions passed
  \* History of the activation handlers (read by the properties only)
  handler,               \* per handler thread: the event being handled, the
                         \* state its check saw, and what it has done so far
  \* The objects of the screen context (followed when the screen monitor is
  \* studied on its own)
  capture,               \* the screen thread's capture cycle: where it is,
                         \* the analysis it has computed, and the analysis
                         \* its last completed cycle wrote
  lists,                 \* the list objects the capture cycles created, per
                         \* list-valued key
  screen_refs,           \* which list objects ScreenMonitor.current_context
                         \* holds (0: the key is absent)
  held,                  \* per reader: the dictionary get_current_context
                         \* returned to it, and what it held when returned
  \* Config, and the use of the engine's cache (followed when the cache is
  \* studied on its own)
  enable_caching,        \* Config.ENABLE_CACHING
  lookup,                \* what the latest get_cached_suggestion returned,
                         \* and what the cache and the setting were then
  stored,                \* per key: the batch cache_suggestion stored last
                         \* and how long ago
  \* History of the orchestrator's loops (followed when they are studied on
  \* their own)
  attempt,               \* per loop: whether the engine call it handled last
                         \* returned an error, and whether the call it is in
                         \* was made after one
  \* The sensors' loops (followed when they are studied on their own)
  sensor_pc,             \* per sensor thread: the statement it is at
  keyboard_active,       \* KeyboardHandler.is_active
  events,                \* the callbacks the audio loop has called since it
                         \* last recognised the hotword, in order
  last_failure,          \* the latest failed iteration of a sensor loop:
                         \* which sensor, what failed, whether it was logged
  \* The keyboard handler's key combinations (followed when they are studied
  \* on their own)
  keys_down,             \* the keys keyboard.is_pressed reports as pressed
  key_combinations,      \* KeyboardHandler.key_combinations, in the order of
                         \* the dictionary
  executed,              \* the actions the latest _check_key_combinations
                         \* executed, in order
  was_complete,          \* the combinations whose keys were all pressed at
                         \* the previous check
  \* The sensors' threads and the keyboard library (followed when starting
  \* and stopping are studied on their own)
  loop_threads,          \* per sensor: how many of its loop threads are alive
  bound,                 \* per hotkey: how many handlers the keyboard library
                         \* holds for it
  invoked                \* the latest press of a hotkey: its action and how
                         \* many times the action's callback was called

engineVars == <<is_initialized, elapsed_since_request, suggestion_cache, eng>>

historyVars == <<served, last_invocation, repeat_call>>

copilotVars == <<is_running, is_active, current_context, last_suggestions>>

componentVars == <<screen_context, is_monitoring, is_listening, hotkeys,
                   callbacks, overlay>>

appVars == <<copilotVars, componentVars, pc, called>>

handlerVars == <<handler>>

screenVars == <<capture, lists, screen_refs, held>>

cacheVars == <<enable_caching, lookup, stored>>

loopVars == <<attempt>>

sensorVars == <<sensor_pc, keyboard_active, events, last_failure>>

keyVars == <<keys_down, key_combinations, executed, was_complete>>

restartVars == <<loop_threads, bound, invoked>>

\* What only the studies of single components follow.
auxVars == <<cacheVars, loopVars, sensorVars, keyVars, restartVars>>

vars == <<engineVars, historyVars, appVars, handlerVars, screenVars, auxVars>>

\* ------------------------------------------------------ results of a call

NoResult == [kind |-> "none", error |-> "", suggestions |-> <<>>, fixes |-> <<>>,
             summary |-> "", confidence |-> 0]

\* {"error": msg}
ErrorResult(msg) == [kind |-> "error", error |-> msg, suggestions |-> <<>>,
                     fixes |-> <<>>, summary |-> "", confidence |-> 0]

\* An exception e leaving a function (no value is returned).
Raised(e) == [kind |-> "raised", error |-> e, suggestions |-> <<>>,
              fixes |-> <<>>, summary |-> "", confidence |-> 0]

\* dict.get(key, default)
Get(d, key, default) == IF key \in DOMAIN d THEN d[key] ELSE default

\* The loop of _format_suggestions appending each kept suggestion in front
\* of the list and giving all the default priority.
RECURSIVE ValidSuggestionsReordered(_)
ValidSuggestionsReordered(raw) ==
  IF raw = <<>> THEN <<>>
  ELSE LET s == Head(raw)
           rest == ValidSuggestionsReordered(Tail(raw))
       IN IF "title" \in DOMAIN s
          THEN rest \o <<[type |-> Get(s, "type", "general"),
                          title |-> Get(s, "title", ""),
                          description |-> Get(s, "description", ""),
                          code |-> Get(s, "code", ""),
                          priority |-> "medium"]>>
          ELSE rest

\* The loop of _format_suggestions: keep the dictionaries that have a
\* "title" key, filling the missing fields with their defaults.
RECURSIVE ValidSuggestions(_)
ValidSuggestions(raw) ==
  IF raw = <<>> THEN <<>>
  ELSE LET s == Head(raw)
           rest == ValidSuggestions(Tail(raw))
       IN IF "title" \in DOMAIN s
          THEN <<[type |-> Get(s, "type", "general"),
                  title |-> Get(s, "title", ""),
                  description |-> Get(s, "description", ""),
                  code |-> Get(s, "code", ""),
                  priority |-> Get(s, "priority", "medium")]>> \o rest
          ELSE rest

\* _format_suggestions(parsed, context); the loop over a "suggestions"
\* that is null raises TypeError.
FormatSuggestions(parsed) ==
  IF "suggestions" \in parsed.dkeys \cap parsed.nulls THEN Raised("TypeError")
  ELSE
  [kind |-> "batch", error |-> "",
   suggestions |-> ValidSuggestions(IF "suggestions" \in parsed.dkeys
                                    THEN parsed.suggestions ELSE <<>>),
   fixes |-> <<>>,
   summary |-> IF "summary" \in parsed.dkeys THEN parsed.summary ELSE "",
   confidence |-> IF "confidence" \in parsed.dkeys THEN parsed.confidence ELSE 5]

\* response[:200] + "..." if len(response) > 200 else response
SummaryLimit == 200
Summary(text) ==
  IF Len(text) > SummaryLimit THEN SubSeq(text, 1, SummaryLimit) \o "..."
  ELSE text

\* _format_text_response with the description cut like the summary.
FormatTextResponseCut(response) ==
  [kind |-> "batch", error |-> "",
   suggestions |-> <<[type |-> "general", title |-> "AI Suggestion",
                      description |-> Summary(response.body), code |-> "",
                      priority |-> "medium"]>>,
   fixes |-> <<>>,
   summary |-> Summary(response.body),
   confidence |-> 5]

\* _format_text_response(response, context)
FormatTextResponse(response) ==
  [kind |-> "batch", error |-> "",
   suggestions |-> <<[type |-> "general", title |-> "AI Suggestion",
                      description |-> response.body, code |-> "",
                      priority |-> "medium"]>>,
   fixes |-> <<>>,
   summary |-> Summary(response.body),
   confidence |-> 5]

\* str.strip() as far as startswith sees it: the white space in front.
Whitespace == {" ", "\n", "\t", "\r"}
RECURSIVE LStrip(_)
LStrip(text) ==
  IF Len(text) > 0 /\ SubSeq(text, 1, 1) \in Whitespace
  THEN LStrip(SubSeq(text, 2, Len(text)))
  ELSE text

\* text.startswith(prefix)
StartsWith(text, prefix) ==
  Len(text) >= Len(prefix) /\ SubSeq(text, 1, Len(prefix)) = prefix

\* _parse_response(response, context): a text that starts with "{" goes to
\* json.loads and _format_suggestions; JSONDecodeError sends it to
\* _format_text_response, any other exception gives the error result; a
\* text that does not start with "{" goes to _format_text_response.
ParseResponse(response) ==
  IF StartsWith(LStrip(response.body), "{")
  THEN IF response.kind = "json"
       THEN LET formatted == FormatSuggestions(response)
            IN IF formatted.kind = "raised"
               THEN ErrorResult("Failed to parse AI response")
               ELSE formatted
       ELSE FormatTextResponse(response)
  ELSE FormatTextResponse(response)

\* json.loads(response) as suggest_fixes, analyze_code_quality and
\* generate_documentation return it; a text that is no JSON raises, and the
\* operation returns {"error": str(e)}.
LoadsResult(response) ==
  IF response.kind = "json"
  THEN [kind |-> "json", error |-> "", suggestions |-> <<>>,
        fixes |-> IF "fixes" \in response.dkeys THEN response.fixes ELSE <<>>,
        summary |-> "", confidence |-> 0]
  ELSE ErrorResult("JSONDecodeError")

\* A test of result.get("error") that never finds one.
HasErrorNever(result) == FALSE

\* result.get("error") is true
HasError(result) == result.kind = "error"


\* ------------------------------------------------------------ the engine

GatedOps == {"generate_suggestions"}
UngatedOps == {"suggest_fixes", "analyze_code_quality", "generate_documentation"}
Ops == GatedOps \cup UngatedOps

\* A caller that is in no engine operation.
IdleCall == [pc |-> "idle", op |-> None, context |-> EmptyContext,
             command |-> None, query |-> None, rem |-> 0, result |-> NoResult]

\* generate_suggestions, "# Rate limiting": the time to sleep when the last
\* recorded request is less than rate_limit_delay ago, else 0.
SleepTime(elapsed) ==
  IF elapsed < RateLimitDelay THEN RateLimitDelay - elapsed ELSE 0

\* An operation without its test of is_initialized.
EnterOperationUnchecked(op, context, command, query) ==
  IF op \in GatedOps /\ SleepTime(elapsed_since_request) > 0
  THEN [IdleCall EXCEPT !.pc = "sleep", !.op = op, !.context = context,
                        !.command = command, !.query = query,
                        !.rem = SleepTime(elapsed_since_request)]
  ELSE [IdleCall EXCEPT !.pc = "await", !.op = op, !.context = context,
                        !.command = command, !.query = query]

\* The call of an operation, up to where it first waits: an uninitialised
\* engine returns its error; generate_suggestions makes its rate-limit check
\* and sleeps if it has to; otherwise the prompt is built and _call_openai
\* sends the request.
EnterOperation(op, context, command, query) ==
  IF ~is_initialized
  THEN [IdleCall EXCEPT !.pc = "done", !.op = op, !.context = context,
                        !.command = command, !.query = query,
                        !.result = ErrorResult("AI Engine not initialized")]
  ELSE IF op \in GatedOps /\ SleepTime(elapsed_since_request) > 0
  THEN [IdleCall EXCEPT !.pc = "sleep", !.op = op, !.context = context,
                        !.command = command, !.query = query,
                        !.rem = SleepTime(elapsed_since_request)]
  ELSE [IdleCall EXCEPT !.pc = "await", !.op = op, !.context = context,
                        !.command = command, !.query = query]

\* time.sleep(...) returns once the time asked for has passed, and
\* generate_suggestions goes on to _call_openai.
SleepReturns(c) ==
  /\ eng[c].pc = "sleep"
  /\ eng[c].rem = 0
  /\ eng' = [eng EXCEPT ![c].pc = "await"]
  /\ UNCHANGED <<is_initialized, elapsed_since_request, suggestion_cache>>

\* The operation without its try/except: an exception of the provider
\* call leaves it.
OperationResultUncaught(op, outcome) ==
  IF outcome.kind = "raise" THEN Raised(outcome.body)
  ELSE IF op \in GatedOps THEN ParseResponse(outcome)
  ELSE LoadsResult(outcome)

\* What the operation returns for the outcome of its provider call: its
\* except clause turns an exception into {"error": str(e)}.
OperationResult(op, outcome) ==
  IF outcome.kind = "raise" THEN ErrorResult(outcome.body)
  ELSE IF op \in GatedOps THEN ParseResponse(outcome)
  ELSE LoadsResult(outcome)

\* Whether the operation sets self.last_request_time = time.time(): only
\* generate_suggestions does, and only past _parse_response.
StampsRequestTime(op, outcome) ==
  op \in GatedOps /\ outcome.kind # "raise"

\* The provider call ends (a response or an exception) and the operation
\* runs to its return.
ProviderReturns(c, outcome) ==
  /\ eng[c].pc = "await"
  /\ eng' = [eng EXCEPT ![c].pc = "done",
                        ![c].result = OperationResult(eng[c].op, outcome)]
  /\ elapsed_since_request' =
       IF StampsRequestTime(eng[c].op, outcome) THEN 0 ELSE elapsed_since_request
  /\ UNCHANGED <<is_initialized, suggestion_cache>>

\* The cache a tick later: time.time() - cached["timestamp"] has grown for
\* every entry (it is followed up to CACHE_TTL, past which the entry has
\* expired for good).
AgeCache(cache) == {[e EXCEPT !.age = Min(@ + 1, CACHE_TTL)] : e \in cache}

\* One tick of time passes: the clock of the last request advances,
\* sleepers get closer to waking and the cache entries get older.
Tick ==
  /\ elapsed_since_request' = Min(elapsed_since_request + 1, RateLimitDelay)
  /\ eng' = [c \in Callers |->
               [eng[c] EXCEPT !.rem = IF @ > 0 THEN @ - 1 ELSE 0]]
  /\ suggestion_cache' = AgeCache(suggestion_cache)
  /\ UNCHANGED is_initialized

\* ------------------------------------------------- history of the engine

\* The step is caller c's provider invocation.
Invokes(c) == eng[c].pc # "await" /\ eng'[c].pc = "await"

\* The step is the return of a batch from caller c's generate call.
ReturnsBatch(c) ==
  /\ eng[c].pc = "await" /\ eng'[c].pc = "done"
  /\ eng[c].op \in GatedOps
  /\ ~HasError(eng'[c].result)

\* The step is caller c's entry into an operation.
Enters(c) == eng[c].pc = "idle" /\ eng'[c].pc # "idle"

Request(call) == [op |-> call.op, context |-> call.context,
                  command |-> call.command, query |-> call.query]

NoInvocation == [op |-> None, age |-> 0]

\* The history after a step of the engine that is no tick.
HistoryStep ==
  /\ served' = {s \in served : \A c \in Callers :
                                  ReturnsBatch(c) => s.request # Request(eng[c])}
                \cup {[request |-> Request(eng[c]), age |-> 0] :
                        c \in {d \in Callers : ReturnsBatch(d)}}
  /\ last_invocation' = [c \in Callers |->
                           IF Invokes(c) THEN [op |-> eng'[c].op, age |-> 0]
                           ELSE last_invocation[c]]
  /\ repeat_call' = [c \in Callers |->
                       IF Enters(c)
                       THEN \E s \in served : s.request = Request(eng'[c])
                       ELSE IF eng'[c].pc = "idle" THEN FALSE
                       ELSE repeat_call[c]]

\* The history after a tick: ages advance, and what is HistoryTicks old
\* (an invocation: RateLimitDelay old) is forgotten.
HistoryTick ==
  /\ served' = {[s EXCEPT !.age = @ + 1] : s \in {x \in served : x.age + 1 < HistoryTicks}}
  /\ last_invocation' = [c \in Callers |->
                           IF last_invocation[c].op = None
                              \/ last_invocation[c].age + 1 >= RateLimitDelay
                           THEN NoInvocation
                           ELSE [last_invocation[c] EXCEPT !.age = @ + 1]]
  /\ UNCHANGED repeat_call

\* ------------------------------------------------------- the application

\* The application's threads: the one that runs main() (and the signal
\* handler), the audio thread, the keyboard library's listener thread, the
\* suggestion loop and the main loop.
Threads == {"main", "audio", "kbd", "sugg", "mainloop"}

\* The threads on which _activate_copilot, _deactivate_copilot and
\* _toggle_overlay are called.
HandlerThreads == {"audio", "kbd"}

\* KeyboardHandler.hotkey_combinations: the actions bound to a hotkey.
HotkeyActions == {"activate_copilot", "deactivate_copilot", "toggle_overlay"}

\* welcome_suggestions of _show_welcome_overlay
WelcomeSuggestions ==
  <<[type |-> "general", title |-> "Welcome to AI Copilot!",
     description |-> "I'm here to help you with your coding.",
     code |-> "", priority |-> "low"],
    [type |-> "best_practice", title |-> "Available Commands",
     description |-> "Try saying: explain, fix, optimize, ...",
     code |-> "", priority |-> "low"]>>

\* The loop of _show_error_suggestions: a suggestion per fix.
RECURSIVE ErrorFixSuggestions(_)
ErrorFixSuggestions(fixes) ==
  IF fixes = <<>> THEN <<>>
  ELSE <<[type |-> "code_fix", title |-> "Error Fix",
          description |-> Get(Head(fixes), "description", ""),
          code |-> Get(Head(fixes), "code", ""),
          priority |-> "high"]>> \o ErrorFixSuggestions(Tail(fixes))

\* The keys of Config.VOICE_COMMANDS, in the order of the dictionary.
VOICE_COMMANDS ==
  <<"explain", "fix", "optimize", "document", "test", "refactor", "debug">>

\* command in text
Contains(text, command) ==
  \E i \in 1..(Len(text) - Len(command) + 1) :
    SubSeq(text, i, i + Len(command) - 1) = command

\* The for loop of _process_voice_command from the i-th key of the table on.
RECURSIVE ProcessVoiceCommand(_, _)
ProcessVoiceCommand(text, i) ==
  IF i > Len(VOICE_COMMANDS) THEN "query"
  ELSE IF Contains(text, VOICE_COMMANDS[i]) THEN VOICE_COMMANDS[i]
  ELSE ProcessVoiceCommand(text, i + 1)

\* A classification by the key that comes first in the text, not in the
\* table.
VoiceCommandOfFirstSpoken(text) ==
  LET at(k) == {i \in 1..Len(text) :
                  /\ i + Len(k) - 1 <= Len(text)
                  /\ SubSeq(text, i, i + Len(k) - 1) = k}
      spoken == {j \in 1..Len(VOICE_COMMANDS) : at(VOICE_COMMANDS[j]) # {}}
      first(j) == CHOOSE i \in at(VOICE_COMMANDS[j]) :
                    \A h \in at(VOICE_COMMANDS[j]) : i <= h
  IN IF spoken = {} THEN "query"
     ELSE VOICE_COMMANDS[CHOOSE j \in spoken :
                           \A h \in spoken : first(j) <= first(h)]

\* _process_voice_command: the first key of the command table the text
\* contains, else "query".
VoiceCommandOf(text) == ProcessVoiceCommand(text, 1)

\* What the screen analysis of a capture cycle can be.
Analyses == {CtxError}

\* dict.update(analysis): the keys of the analysis are written over the
\* dictionary, the others stay.
Update(d, analysis) ==
  [keys |-> d.keys \cup analysis.keys,
   text_content |-> IF "text_content" \in analysis.keys
                    THEN analysis.text_content ELSE d.text_content,
   code_detected |-> IF "code_detected" \in analysis.keys
                     THEN analysis.code_detected ELSE d.code_detected,
   language |-> IF "language" \in analysis.keys
                THEN analysis.language ELSE d.language,
   error_indicators |-> IF "error_indicators" \in analysis.keys
                        THEN analysis.error_indicators ELSE d.error_indicators,
   code_snippets |-> IF "code_snippets" \in analysis.keys
                     THEN analysis.code_snippets ELSE d.code_snippets]

\* What the provider answers to the application's calls.
AppOutcomes(op) ==
  IF op \in GatedOps THEN {RespJson, Raise} ELSE {RespFixes, Raise}

\* ------------------------------------------------------------- OverlayUI

\* The overlay window.  fade: 0 when no fade thread (_modern_fade_animation
\* or _fade_animation) is alive, which is what animation_running and
\* fade_thread.is_alive() tell, else fade_direction (1 in, -1 out), which
\* is read by a live fade thread only.  Both kinds of thread end the same
\* way, so they are not told apart.
OverlayInit == [root |-> FALSE, is_visible |-> FALSE, fade |-> 0]

\* _start_modern_fade_animation(direction) and
\* _start_fade_animation(direction): the direction is set, and a thread is
\* started unless one is running.
StartFadeAnimation(o, direction) == [o EXCEPT !.fade = direction]

\* create_overlay(suggestions); _setup_auto_hide starts the thread of
\* AutoHide.
CreateOverlay(o) ==
  StartFadeAnimation([o EXCEPT !.root = TRUE, !.is_visible = TRUE], 1)

\* A hide_overlay() that does not test is_visible.
HideOverlayAlways(o) == StartFadeAnimation(o, -1)

\* hide_overlay()
HideOverlay(o) == IF o.is_visible THEN StartFadeAnimation(o, -1) ELSE o

\* update_suggestions(suggestions): suggestions_frame is None in a window
\* built by create_overlay, so nothing is redrawn.
UpdateSuggestions(o, suggestions) == o

\* destroy()
Destroy(o) == [o EXCEPT !.root = FALSE, !.is_visible = FALSE]

\* The end of a fade thread: a fade-out withdraws the window.
FadeAnimationEnds ==
  /\ overlay.fade # 0
  /\ overlay' = [overlay EXCEPT
                   !.fade = 0,
                   !.is_visible = IF overlay.fade = -1 /\ overlay.root
                                  THEN FALSE ELSE @]
  /\ UNCHANGED <<copilotVars, screen_context, is_monitoring, is_listening,
                 hotkeys, callbacks, pc, called>>

\* auto_hide() wakes after its 30 seconds: if self.is_visible,
\* hide_overlay().  While the window is visible and not fading out, the
\* thread started by the create_overlay that showed it is still asleep; in
\* the other states a waking thread changes nothing.
AutoHide ==
  /\ overlay.is_visible
  /\ overlay.fade # -1
  /\ overlay' = HideOverlay(overlay)
  /\ UNCHANGED <<copilotVars, screen_context, is_monitoring, is_listening,
                 hotkeys, callbacks, pc, called>>

\* ------------------------------------------------------- overlay calls

NoCall == [method |-> None, suggestions |-> <<>>]

Call(method, suggestions) == [method |-> method, suggestions |-> suggestions]

Goto(t, label) == pc' = [pc EXCEPT ![t] = label]

\* The record of thread t's overlay call; it is kept for the handler threads.
Calls(t, c) ==
  called' = IF t \in HandlerThreads THEN [called EXCEPT ![t] = c] ELSE called

\* _show_suggestions({"suggestions": suggestion_list}) on thread t
ShowSuggestions(t, suggestion_list) ==
  IF is_active /\ suggestion_list # <<>>
  THEN /\ overlay' = CreateOverlay(overlay)
       /\ Calls(t, Call("create_overlay", suggestion_list))
  ELSE /\ UNCHANGED overlay
       /\ Calls(t, NoCall)

\* _show_welcome_overlay() on thread t
ShowWelcomeOverlay(t) ==
  /\ overlay' = CreateOverlay(overlay)
  /\ Calls(t, Call("create_overlay", WelcomeSuggestions))

\* ----------------------------------------------- start() and stop()

\* start(), up to the two sensors it starts: the screen monitor's loop and
\* the keyboard handler's hotkeys.
StartSensors ==
  /\ pc["main"] = "constructed"
  /\ ~is_running
  /\ is_monitoring' = TRUE
  /\ hotkeys' = HotkeyActions
  /\ Goto("main", "start_flags")
  /\ Calls("main", NoCall)
  /\ UNCHANGED <<copilotVars, screen_context, is_listening, callbacks, overlay>>

\* start(): "# Set running state", and the two loops are started.
StartFlags ==
  /\ pc["main"] = "start_flags"
  /\ is_running' = TRUE
  /\ is_active' = TRUE
  /\ pc' = [pc EXCEPT !["main"] = "start_welcome",
                      !["mainloop"] = "loop", !["sugg"] = "loop"]
  /\ Calls("main", NoCall)
  /\ UNCHANGED <<current_context, last_suggestions, componentVars>>

\* start(): "# Show initial overlay"
StartWelcome ==
  /\ pc["main"] = "start_welcome"
  /\ ShowWelcomeOverlay("main")
  /\ Goto("main", "running")
  /\ UNCHANGED <<copilotVars, screen_context, is_monitoring, is_listening,
                 hotkeys, callbacks>>

\* stop() (from the signal handler or the KeyboardInterrupt of main()): the
\* two flags.
StopFlags ==
  /\ pc["main"] = "running"
  /\ is_running
  /\ is_running' = FALSE
  /\ is_active' = FALSE
  /\ Goto("main", "stop_sensors")
  /\ Calls("main", NoCall)
  /\ UNCHANGED <<current_context, last_suggestions, componentVars>>

\* stop(): stop_monitoring() of the screen monitor, stop_listening() and
\* stop_monitoring() of the keyboard handler (hotkeys removed, callbacks
\* cleared).
StopSensors ==
  /\ pc["main"] = "stop_sensors"
  /\ is_monitoring' = FALSE
  /\ is_listening' = FALSE
  /\ hotkeys' = {}
  /\ callbacks' = {}
  /\ Goto("main", "stop_overlay")
  /\ Calls("main", NoCall)
  /\ UNCHANGED <<copilotVars, screen_context, overlay>>

\* stop(): self.overlay_ui.destroy()
StopOverlay ==
  /\ pc["main"] = "stop_overlay"
  /\ overlay' = Destroy(overlay)
  /\ Goto("main", "stopped")
  /\ Calls("main", Call("destroy", <<>>))
  /\ UNCHANGED <<copilotVars, screen_context, is_monitoring, is_listening,
                 hotkeys, callbacks>>

\* ------------------------------------------------------ the screen thread

\* _capture_and_analyze: self.current_context.update(analysis)
CaptureAndAnalyze ==
  /\ is_monitoring
  /\ \E analysis \in Analyses : screen_context' = Update(screen_context, analysis)
  /\ UNCHANGED <<copilotVars, is_monitoring, is_listening, hotkeys, callbacks,
                 overlay, pc, called>>

\* -------------------------------- _activate_copilot, on thread t

\* A handler that skips the test of _activate_copilot.
ActivateUnconditionally == "act_set"

\* if not self.is_active: the statement the handler goes to.
ActivateCheck == IF ~is_active THEN "act_set" ELSE "act_done"

\* self.is_active = True
ActivateSet(t) ==
  /\ pc[t] = "act_set"
  /\ is_active' = TRUE
  /\ Goto(t, "act_branch")
  /\ Calls(t, NoCall)
  /\ UNCHANGED <<is_running, current_context, last_suggestions, componentVars>>

\* if self.last_suggestions:
ActivateBranch(t) ==
  /\ pc[t] = "act_branch"
  /\ Goto(t, IF last_suggestions # <<>> THEN "act_show" ELSE "act_welcome")
  /\ Calls(t, NoCall)
  /\ UNCHANGED <<copilotVars, componentVars>>

\* self._show_suggestions({"suggestions": self.last_suggestions})
ActivateShow(t) ==
  /\ pc[t] = "act_show"
  /\ ShowSuggestions(t, last_suggestions)
  /\ Goto(t, "act_done")
  /\ UNCHANGED <<copilotVars, screen_context, is_monitoring, is_listening,
                 hotkeys, callbacks>>

\* self._show_welcome_overlay()
ActivateWelcome(t) ==
  /\ pc[t] = "act_welcome"
  /\ ShowWelcomeOverlay(t)
  /\ Goto(t, "act_done")
  /\ UNCHANGED <<copilotVars, screen_context, is_monitoring, is_listening,
                 hotkeys, callbacks>>

\* _activate_copilot returns: the audio thread goes on to
\* _listen_for_command, the keyboard thread waits for the next hotkey.
ActivateReturns(t) ==
  /\ pc[t] = "act_done"
  /\ Goto(t, IF t = "audio" THEN "record" ELSE "wait")
  /\ Calls(t, NoCall)
  /\ UNCHANGED <<copilotVars, componentVars>>

\* ------------------------------ _deactivate_copilot, on thread t

\* A handler that skips the test of _deactivate_copilot.
DeactivateUnconditionally == "deact_set"

\* if self.is_active: the statement the handler goes to.
DeactivateCheck == IF is_active THEN "deact_set" ELSE "deact_done"

\* self.is_active = False
DeactivateSet(t) ==
  /\ pc[t] = "deact_set"
  /\ is_active' = FALSE
  /\ Goto(t, "deact_hide")
  /\ Calls(t, NoCall)
  /\ UNCHANGED <<is_running, current_context, last_suggestions, componentVars>>

\* if self.overlay_ui: self.overlay_ui.hide_overlay()
DeactivateHide(t) ==
  /\ pc[t] = "deact_hide"
  /\ overlay' = HideOverlay(overlay)
  /\ Goto(t, "deact_done")
  /\ Calls(t, Call("hide_overlay", <<>>))
  /\ UNCHANGED <<copilotVars, screen_context, is_monitoring, is_listening,
                 hotkeys, callbacks>>

DeactivateReturns(t) ==
  /\ pc[t] = "deact_done"
  /\ Goto(t, "wait")
  /\ Calls(t, NoCall)
  /\ UNCHANGED <<copilotVars, componentVars>>

\* ---------------------------------- _toggle_overlay, on thread t

\* if self.overlay_ui.is_visible: the statement the handler goes to.
ToggleCheck == IF overlay.is_visible THEN "tog_hide" ELSE "tog_show"

\* self.overlay_ui.hide_overlay()
ToggleHide(t) ==
  /\ pc[t] = "tog_hide"
  /\ overlay' = HideOverlay(overlay)
  /\ Goto(t, "tog_done")
  /\ Calls(t, Call("hide_overlay", <<>>))
  /\ UNCHANGED <<copilotVars, screen_context, is_monitoring, is_listening,
                 hotkeys, callbacks>>

\* self._show_suggestions({"suggestions": self.last_suggestions})
ToggleShow(t) ==
  /\ pc[t] = "tog_show"
  /\ ShowSuggestions(t, last_suggestions)
  /\ Goto(t, "tog_done")
  /\ UNCHANGED <<copilotVars, screen_context, is_monitoring, is_listening,
                 hotkeys, callbacks>>

ToggleReturns(t) ==
  /\ pc[t] = "tog_done"
  /\ Goto(t, "wait")
  /\ Calls(t, NoCall)
  /\ UNCHANGED <<copilotVars, componentVars>>

\* ---------------------------------------------------- the keyboard thread

\* The statement a hotkey's callback goes to from its first test.
HandlerEntry(action) ==
  IF action = "activate_copilot" THEN ActivateCheck
  ELSE IF action = "deactivate_copilot" THEN DeactivateCheck
  ELSE ToggleCheck

\* _hotkey_callback(action): a registered hotkey is pressed and the action
\* has a callback, which runs up to its first test.
HotkeyPressed(action) ==
  /\ pc["kbd"] = "wait"
  /\ action \in hotkeys
  /\ action \in callbacks
  /\ Goto("kbd", HandlerEntry(action))
  /\ Calls("kbd", NoCall)
  /\ UNCHANGED <<copilotVars, componentVars>>

\* ------------------------------------------------------- the audio thread

\* _audio_loop: while self.is_listening
AudioLoopExits ==
  /\ pc["audio"] = "listen"
  /\ ~is_listening
  /\ Goto("audio", "exited")
  /\ Calls("audio", NoCall)
  /\ UNCHANGED <<copilotVars, componentVars>>

\* _audio_loop: _detect_hotword is true; hotword_callback() is
\* _on_hotword_detected, which calls _activate_copilot, which runs up to
\* its test.
HotwordDetected ==
  /\ pc["audio"] = "listen"
  /\ is_listening
  /\ Goto("audio", ActivateCheck)
  /\ Calls("audio", NoCall)
  /\ UNCHANGED <<copilotVars, componentVars>>

\* _listen_for_command: nothing recognised.
NoVoiceCommand ==
  /\ pc["audio"] = "record"
  /\ Goto("audio", "listen")
  /\ Calls("audio", NoCall)
  /\ UNCHANGED <<copilotVars, componentVars>>

\* _listen_for_command recognises a text; _process_voice_command picks the
\* command and voice_command_callback is _on_voice_command, which calls
\* generate_suggestions(self.current_context, command=command, query=text).
VoiceCommand(text) ==
  /\ pc["audio"] = "record"
  /\ is_listening
  /\ eng' = [eng EXCEPT !["audio"] =
               EnterOperation("generate_suggestions", current_context,
                              VoiceCommandOf(text), text)]
  /\ Goto("audio", "in_call")
  /\ Calls("audio", NoCall)
  /\ UNCHANGED <<copilotVars, componentVars>>
  /\ UNCHANGED <<is_initialized, elapsed_since_request, suggestion_cache>>

\* _on_voice_command, after generate_suggestions has returned.
VoiceCommandResult ==
  /\ pc["audio"] = "in_call"
  /\ eng["audio"].pc = "done"
  /\ IF ~HasError(eng["audio"].result)
     THEN ShowSuggestions("audio", eng["audio"].result.suggestions)
     ELSE UNCHANGED overlay /\ Calls("audio", NoCall)
  /\ eng' = [eng EXCEPT !["audio"] = IdleCall]
  /\ Goto("audio", "vc_done")
  /\ UNCHANGED <<copilotVars, screen_context, is_monitoring, is_listening,
                 hotkeys, callbacks>>
  /\ UNCHANGED <<is_initialized, elapsed_since_request, suggestion_cache>>

\* _on_voice_command returns, and the audio loop goes round.
VoiceCommandReturns ==
  /\ pc["audio"] = "vc_done"
  /\ Goto("audio", "listen")
  /\ Calls("audio", NoCall)
  /\ UNCHANGED <<copilotVars, componentVars>>

\* ---------------------------------------------------- the suggestion loop

\* _suggestion_loop: while self.is_running
SuggestionLoopExits ==
  /\ pc["sugg"] = "loop"
  /\ ~is_running
  /\ Goto("sugg", "exited")
  /\ Calls("sugg", NoCall)
  /\ UNCHANGED <<copilotVars, componentVars>>

\* _suggestion_loop: if self.is_active and self.current_context, call
\* generate_suggestions(self.current_context).
SuggestionLoopGenerates ==
  /\ pc["sugg"] = "loop"
  /\ is_running
  /\ is_active /\ Truthy(current_context)
  /\ eng' = [eng EXCEPT !["sugg"] =
               EnterOperation("generate_suggestions", current_context, None, None)]
  /\ Goto("sugg", "in_call")
  /\ Calls("sugg", NoCall)
  /\ UNCHANGED <<copilotVars, componentVars>>
  /\ UNCHANGED <<is_initialized, elapsed_since_request, suggestion_cache>>

\* _suggestion_loop, after generate_suggestions has returned: the batch is
\* stored and, if the overlay is visible, sent to it; then the loop sleeps
\* and goes round.
SuggestionLoopResult ==
  /\ pc["sugg"] = "in_call"
  /\ eng["sugg"].pc = "done"
  /\ LET suggestions == eng["sugg"].result IN
       IF ~HasError(suggestions)
       THEN /\ last_suggestions' = suggestions.suggestions
            /\ IF overlay.is_visible
               THEN /\ overlay' = UpdateSuggestions(overlay, suggestions.suggestions)
                    /\ Calls("sugg", Call("update_suggestions",
                                          suggestions.suggestions))
               ELSE UNCHANGED overlay /\ Calls("sugg", NoCall)
       ELSE /\ UNCHANGED <<last_suggestions, overlay>>
            /\ Calls("sugg", NoCall)
  /\ eng' = [eng EXCEPT !["sugg"] = IdleCall]
  /\ Goto("sugg", "loop")
  /\ UNCHANGED <<is_running, is_active, current_context, screen_context,
                 is_monitoring, is_listening, hotkeys, callbacks>>
  /\ UNCHANGED <<is_initialized, elapsed_since_request, suggestion_cache>>

\* ------------------------------------------------------------ the main loop

\* _main_loop: while self.is_running
MainLoopExits ==
  /\ pc["mainloop"] = "loop"
  /\ ~is_running
  /\ Goto("mainloop", "exited")
  /\ Calls("mainloop", NoCall)
  /\ UNCHANGED <<copilotVars, componentVars>>

\* _check_for_issues without its test of is_active.
HasIssuesWhileIdle(context) ==
  Truthy(context) /\ context.error_indicators # {}

\* _check_for_issues calls suggest_fixes for this context.
HasIssues(context) ==
  Truthy(context) /\ context.error_indicators # {} /\ is_active

\* _main_loop: the context is copied from the screen monitor and
\* _check_for_issues runs up to its call of suggest_fixes, if it makes one;
\* if not, the loop sleeps and goes round.
MainLoopIteration ==
  /\ pc["mainloop"] = "loop"
  /\ is_running
  /\ current_context' = screen_context
  /\ IF HasIssues(screen_context)
     THEN /\ eng' = [eng EXCEPT !["mainloop"] =
                       EnterOperation("suggest_fixes", screen_context, None, None)]
          /\ Goto("mainloop", "in_call")
     ELSE UNCHANGED <<eng, pc>>
  /\ Calls("mainloop", NoCall)
  /\ UNCHANGED <<is_running, is_active, last_suggestions, componentVars>>
  /\ UNCHANGED <<is_initialized, elapsed_since_request, suggestion_cache>>

\* _check_for_issues, after suggest_fixes has returned:
\* _show_error_suggestions; then the loop sleeps and goes round.
MainLoopResult ==
  /\ pc["mainloop"] = "in_call"
  /\ eng["mainloop"].pc = "done"
  /\ LET error_suggestions == eng["mainloop"].result IN
       IF ~HasError(error_suggestions) /\ error_suggestions.fixes # <<>>
       THEN ShowSuggestions("mainloop",
                            ErrorFixSuggestions(error_suggestions.fixes))
       ELSE UNCHANGED overlay /\ Calls("mainloop", NoCall)
  /\ eng' = [eng EXCEPT !["mainloop"] = IdleCall]
  /\ Goto("mainloop", "loop")
  /\ UNCHANGED <<copilotVars, screen_context, is_monitoring, is_listening,
                 hotkeys, callbacks>>
  /\ UNCHANGED <<is_initialized, elapsed_since_request, suggestion_cache>>

\* ------------------------------------- history of the activation handlers

\* The statements of the three handlers past their first test, and those
\* at which a handler has run its last statement and not yet returned.
ActivatePcs == {"act_set", "act_branch", "act_show", "act_welcome"}
DeactivatePcs == {"deact_set", "deact_hide"}
TogglePcs == {"tog_hide", "tog_show"}
RunningPcs == ActivatePcs \cup DeactivatePcs \cup TogglePcs
DonePcs == {"act_done", "deact_done", "tog_done"}

\* Thread t is executing an activation-relevant handler.
InHandler(t) == pc[t] \in RunningPcs

\* The event whose handler the statement belongs to.
EventAt(t, label) ==
  IF label \in ActivatePcs \cup {"act_done"}
  THEN (IF t = "audio" THEN "hotword" ELSE "activate")
  ELSE IF label \in DeactivatePcs \cup {"deact_done"} THEN "deactivate"
  ELSE "toggle"

\* observed: the activation state the handler's test read.  quiet: no other
\* thread has written is_active or last_suggestions since.  outside: a
\* thread that is no handler thread has.
NoHandler == [event |-> None, observed |-> None, transitions |-> 0,
              displays |-> 0, hides |-> 0, quiet |-> TRUE, outside |-> FALSE]

\* The step writes what a handler reads.
Disturbs ==
  is_active' # is_active \/ last_suggestions' # last_suggestions

\* The history after a step of thread t.
HandlerStep(t) ==
  handler' = [h \in HandlerThreads |->
       IF h # t
       THEN IF handler[h].event \in {None, "toggle"} THEN handler[h]
            ELSE [handler[h] EXCEPT
                    !.quiet = @ /\ ~Disturbs,
                    !.outside = @ \/ (Disturbs /\ t \notin HandlerThreads)]
       ELSE IF pc'[h] \notin RunningPcs \cup DonePcs THEN NoHandler
       ELSE IF pc[h] \notin RunningPcs \cup DonePcs
       THEN [NoHandler EXCEPT
               !.event = EventAt(h, pc'[h]),
               !.observed = IF is_active THEN "Active" ELSE "Idle"]
       ELSE [handler[h] EXCEPT
               !.transitions = IF is_active' # is_active THEN @ + 1 ELSE @,
               !.displays = IF called'[h].method = "create_overlay"
                            THEN @ + 1 ELSE @,
               !.hides = IF called'[h].method = "hide_overlay"
                         THEN @ + 1 ELSE @]]

\* ------------------------------------------------------- the application

AppInit ==
  /\ is_running = FALSE
  /\ is_active = FALSE
  /\ current_context = EmptyContext
  /\ last_suggestions = <<>>
  /\ screen_context = EmptyContext
  /\ is_monitoring = FALSE
  /\ is_listening = TRUE
  /\ hotkeys = {}
  /\ callbacks = HotkeyActions
  /\ overlay = OverlayInit
  /\ pc = [t \in Threads |->
             IF t = "main" THEN "constructed"
             ELSE IF t = "audio" THEN "listen"
             ELSE IF t = "kbd" THEN "wait"
             ELSE "off"]
  /\ called = [t \in HandlerThreads |-> NoCall]

HandlerInit == handler = [h \in HandlerThreads |-> NoHandler]

\* ------------------------------------------- the screen context store

\* Callers of ScreenMonitor.get_current_context: the main loop.
Readers == {"mainloop"}

\* What the screen analysis of a capture cycle can be when the screen
\* monitor is studied on its own.
ScreenAnalyses == {CtxError, CtxCode, CtxBare}

\* The keys of an analysis whose value is a list.
ListFields == {"error_indicators", "code_snippets"}

\* Names of list objects: one per holder of a dictionary (the store and each
\* reader) and one for the list being created.
ListIds == 1 .. (Cardinality(Readers) + 2)

\* [] as the model writes the list of each key.
EmptyList(f) == IF f = "error_indicators" THEN {} ELSE <<>>

NoRefs == [f \in ListFields |-> 0]

\* The list objects a dictionary with these references holds, by value.
ListsOf(refs, heap) ==
  [f \in ListFields |-> IF refs[f] = 0 THEN EmptyList(f) ELSE heap[f][refs[f]]]

\* The dictionary a reader holds, as it reads now: the keys and the values
\* that are no list from the dictionary object (the store itself if the
\* reader was handed the store), the lists through the references.
Deref(snapshot) ==
  LET d == IF snapshot.aliased THEN screen_context ELSE snapshot.dict
      refs == IF snapshot.aliased THEN screen_refs ELSE snapshot.refs
      now == ListsOf(refs, lists)
  IN [d EXCEPT !.error_indicators = now["error_indicators"],
               !.code_snippets = now["code_snippets"]]

\* get_current_context handing out the store itself.
GetCurrentContextNoCopy ==
  [aliased |-> TRUE, dict |-> screen_context, refs |-> screen_refs]

\* get_current_context(): return self.current_context.copy(), a new
\* dictionary with the keys of the store and the same value objects.
GetCurrentContext ==
  [aliased |-> FALSE, dict |-> screen_context, refs |-> screen_refs]

NoSnapshot == [has |-> FALSE,
               snapshot |-> [aliased |-> FALSE, dict |-> EmptyContext,
                             refs |-> NoRefs],
               returned |-> EmptyContext, last_written |-> EmptyContext,
               concurrent |-> FALSE, incoming |-> EmptyContext]

\* The list objects of key f that the store or a reader's dictionary holds.
LiveLists(f, store_refs, holders) ==
  {store_refs[f]} \cup {holders[r].snapshot.refs[f] : r \in Readers}

\* The heap with the objects nothing refers to freed.
Sweep(heap, store_refs, holders) ==
  [f \in ListFields |->
     [i \in ListIds |-> IF i \in LiveLists(f, store_refs, holders)
                        THEN heap[f][i] ELSE EmptyList(f)]]

\* The name of a new list object of key f.
FreshList(f) ==
  CHOOSE i \in ListIds :
    /\ i \notin LiveLists(f, screen_refs, held)
    /\ \A j \in ListIds : j < i => j \in LiveLists(f, screen_refs, held)

\* ScreenMonitor.__init__: self.current_context = {}
ScreenInit ==
  /\ capture = [pc |-> "idle", analysis |-> EmptyContext, written |-> EmptyContext]
  /\ lists = [f \in ListFields |-> [i \in ListIds |-> EmptyList(f)]]
  /\ screen_refs = NoRefs
  /\ held = [r \in Readers |-> NoSnapshot]

\* ScreenMonitor.start_monitoring()
StartMonitoring ==
  /\ ~is_monitoring
  /\ is_monitoring' = TRUE
  /\ UNCHANGED <<copilotVars, screen_context, is_listening, hotkeys, callbacks,
                 overlay, pc, called, screenVars>>

\* ScreenMonitor.stop_monitoring(); the loop ends after the cycle it is in.
StopMonitoring ==
  /\ is_monitoring
  /\ is_monitoring' = FALSE
  /\ UNCHANGED <<copilotVars, screen_context, is_listening, hotkeys, callbacks,
                 overlay, pc, called, screenVars>>

\* _capture_and_analyze, up to its update: the screen is captured and
\* _analyze_screen_content returns a new dictionary.
AnalyzeScreen(analysis) ==
  /\ is_monitoring
  /\ capture.pc = "idle"
  /\ capture' = [capture EXCEPT !.pc = "analyzed", !.analysis = analysis]
  /\ UNCHANGED <<appVars, lists, screen_refs, held>>

\* _capture_and_analyze: self.current_context.update(analysis).  The keys of
\* the analysis are bound to its values, which are new objects; the other
\* keys of the store keep the objects they had.  dict.update runs as one
\* call of the interpreter: no other thread runs inside it.
UpdateContext ==
  /\ capture.pc = "analyzed"
  /\ LET analysis == capture.analysis
         refs == [f \in ListFields |->
                    IF f \in analysis.keys THEN FreshList(f) ELSE screen_refs[f]]
         heap == [f \in ListFields |->
                    IF f \in analysis.keys
                    THEN [lists[f] EXCEPT ![refs[f]] = analysis[f]]
                    ELSE lists[f]]
     IN /\ screen_context' = Update(screen_context, analysis)
        /\ screen_refs' = refs
        /\ lists' = Sweep(heap, refs, held)
        /\ capture' = [capture EXCEPT !.pc = "idle", !.analysis = EmptyContext,
                                      !.written = analysis]
  /\ UNCHANGED <<copilotVars, is_monitoring, is_listening, hotkeys, callbacks,
                 overlay, pc, called, held>>

\* A reader calls get_current_context and keeps what it returns (dropping
\* what it held).  dict.copy runs as one call of the interpreter.  With the
\* dictionary are recorded what it read as when returned, the analysis the
\* last completed cycle wrote, and the analysis of a cycle that is between
\* its analysis and its update, if there is one.
ReadContext(r) ==
  /\ held' = [held EXCEPT ![r] =
                [has |-> TRUE,
                 snapshot |-> GetCurrentContext,
                 returned |-> Deref(GetCurrentContext),
                 last_written |-> capture.written,
                 concurrent |-> capture.pc = "analyzed",
                 incoming |-> capture.analysis]]
  /\ lists' = Sweep(lists, screen_refs, held')
  /\ UNCHANGED <<appVars, capture, screen_refs>>

\* ------------------------------------------ the engine driven by clients

ClientContexts == {CtxError}

\* (command, query) pairs a client passes to generate_suggestions.
ClientRequests == {<<None, None>>, <<"fix", "fix this">>}

ClientCalls(c) ==
  /\ eng[c].pc = "idle"
  /\ \E op \in Ops, context \in ClientContexts, rq \in ClientRequests :
       /\ op \in UngatedOps => rq = <<None, None>>
       /\ eng' = [eng EXCEPT ![c] = EnterOperation(op, context, rq[1], rq[2])]
  /\ UNCHANGED <<is_initialized, elapsed_since_request, suggestion_cache>>

\* The client takes the value the operation returned.
ClientGetsResult(c) ==
  /\ eng[c].pc = "done"
  /\ eng' = [eng EXCEPT ![c] = IdleCall]
  /\ UNCHANGED <<is_initialized, elapsed_since_request, suggestion_cache>>

\* _initialize_client: is_initialized becomes True when there is an API key
\* and the client is constructed; with no key, or when the construction
\* raises, it stays False.
InitializeClient(api_key, constructed) == api_key /\ constructed

EngineInit ==
  /\ is_initialized \in {InitializeClient(api_key, constructed) :
                           api_key \in BOOLEAN, constructed \in BOOLEAN}
  /\ elapsed_since_request = RateLimitDelay
  /\ suggestion_cache = {}
  /\ eng = [c \in Callers |-> IdleCall]

\* Config as the module sets it, and no lookup made yet.
NoLookup == [key |-> None, value |-> None, present |-> FALSE, enabled |-> FALSE]

\* Nothing has been stored under a key.
NotStored == [suggestion |-> None, age |-> 0]

CacheInit ==
  /\ enable_caching = ENABLE_CACHING
  /\ lookup = NoLookup
  /\ stored = [k \in {"hash1"} |-> NotStored]

\* The loops have made no engine call yet.
NoAttempt == [failed |-> FALSE, retry |-> FALSE]

LoopInit == attempt = [l \in {"sugg", "mainloop"} |-> NoAttempt]

\* No iteration of a sensor loop has failed.
NoFailure == [sensor |-> None, kind |-> None, logged |-> FALSE]

\* After __init__: _setup_callbacks has called start_listening, so the audio
\* thread is about to open its stream; the two other loops are started by
\* start().
SensorInit ==
  /\ sensor_pc = [screen |-> "off", audio |-> "open", keyboard |-> "off"]
  /\ keyboard_active = FALSE
  /\ events = <<>>
  /\ last_failure = NoFailure

\* KeyboardHandler.__init__: no combination is registered.
KeyInit ==
  /\ keys_down = {}
  /\ key_combinations = <<>>
  /\ executed = <<>>
  /\ was_complete = {}

\* No hotkey has been pressed.
NoPress == [action |-> None, times |-> 0]

\* After __init__: the audio loop is the only loop thread, and the keyboard
\* library holds no handler.
RestartInit ==
  /\ loop_threads = [screen |-> 0, audio |-> 1, keyboard |-> 0]
  /\ bound = [h \in HotkeyActions |-> 0]
  /\ invoked = NoPress

AuxInit == CacheInit /\ LoopInit /\ SensorInit /\ KeyInit /\ RestartInit

HistoryInit ==
  /\ served = {}
  /\ last_invocation = [c \in Callers |-> NoInvocation]
  /\ repeat_call = [c \in Callers |-> FALSE]

InitEngine ==
  EngineInit /\ HistoryInit /\ AppInit /\ HandlerInit /\ ScreenInit /\ AuxInit

\* The application's threads do not run while the clients drive the engine.
AppIdle == UNCHANGED <<appVars, handlerVars, screenVars, auxVars>>

EngineNext ==
  \/ \E c \in Clients : ClientCalls(c) /\ HistoryStep /\ AppIdle
  \/ \E c \in Clients : SleepReturns(c) /\ HistoryStep /\ AppIdle
  \/ \E c \in Clients, outcome \in Outcomes :
       ProviderReturns(c, outcome) /\ HistoryStep /\ AppIdle
  \/ \E c \in Clients : ClientGetsResult(c) /\ HistoryStep /\ AppIdle
  \/ Tick /\ HistoryTick /\ AppIdle

SpecEngine == InitEngine /\ [][EngineNext]_vars

\* ------------------------------------- the screen monitor on its own

\* The other components do not run while the screen monitor is studied.
ScreenOnly == UNCHANGED <<engineVars, historyVars, handlerVars, auxVars>>

InitScreen ==
  EngineInit /\ HistoryInit /\ AppInit /\ HandlerInit /\ ScreenInit /\ AuxInit

ScreenNext ==
  \/ StartMonitoring /\ ScreenOnly
  \/ StopMonitoring /\ ScreenOnly
  \/ \E analysis \in ScreenAnalyses : AnalyzeScreen(analysis) /\ ScreenOnly
  \/ UpdateContext /\ ScreenOnly
  \/ \E r \in Readers : ReadContext(r) /\ ScreenOnly

SpecScreen == InitScreen /\ [][ScreenNext]_vars


\* ------------------------------------------------ properties of the engine

\* C1. Cache idempotence: with caching enabled, a generate_suggestions call
\* entered after an identical call (same context, command and query) has
\* returned its batch, within the cache TTL, makes no provider invocation:
\* the two calls cause one invocation in total.
C1_CacheIdempotence ==
  [][\A c \in Clients :
       (ENABLE_CACHING /\ HistoryTicks <= CACHE_TTL
        /\ Invokes(c) /\ eng'[c].op \in GatedOps) => ~repeat_call'[c]]_vars

\* C2. Rate limiter: in a sequence of generate_suggestions calls made one
\* after another by a caller, whatever the outcome of each, a provider
\* invocation never starts less than rate_limit_delay after the previous one.
C2_RateLimiterSpacing ==
  [][\A c \in Clients :
       (Invokes(c) /\ eng'[c].op \in GatedOps)
         => last_invocation[c].op \notin GatedOps]_vars

\* C3. The minimum-interval gate is shared by all operations: a provider
\* invocation of suggest_fixes, analyze_code_quality or
\* generate_documentation never starts less than rate_limit_delay after an
\* invocation of another operation, nor one of another operation after it
\* (stated on the calls one caller makes one after another).
C3_SharedGate ==
  [][\A c \in Clients :
       Invokes(c) => last_invocation[c].op \in {None, eng'[c].op}]_vars

\* C4. In-flight deduplication: at every moment at most one provider call
\* is in flight per request fingerprint (operation, context, command, query).
C4_OneInflightPerFingerprint ==
  \A c, d \in Callers :
    (c # d /\ eng[c].pc = "await" /\ eng[d].pc = "await")
      => Request(eng[c]) # Request(eng[d])


\* ------------------------------------------- the application as a whole

\* A step of thread t that leaves the engine alone, and one that enters or
\* leaves an engine operation.
Local(t) ==
  HandlerStep(t) /\ UNCHANGED <<engineVars, historyVars, screenVars, auxVars>>
WithEngine(t) ==
  HandlerStep(t) /\ UNCHANGED <<historyVars, screenVars, auxVars>>

\* A step inside the engine, of the overlay's own threads, of the screen
\* thread, or of time.
Background == UNCHANGED <<handlerVars, historyVars, screenVars, auxVars>>
InEngine ==
  UNCHANGED <<appVars, handlerVars, historyVars, screenVars, auxVars>>

\* The statements at which a worker thread waits for its next event or
\* round, or does not run.
WaitingPcs == {"listen", "record", "wait", "loop", "off", "exited"}

Busy == {t \in Threads \ {"main"} : pc[t] \notin WaitingPcs}

\* The schedules explored: a worker leaves its waiting statement only while
\* fewer than MaxBusy workers are away from theirs.
MayStart == Cardinality(Busy) < MaxBusy

Init ==
  EngineInit /\ HistoryInit /\ AppInit /\ HandlerInit /\ ScreenInit /\ AuxInit

Next ==
  \/ StartSensors /\ Local("main")
  \/ StartFlags /\ Local("main")
  \/ StartWelcome /\ Local("main")
  \/ StopFlags /\ Local("main")
  \/ StopSensors /\ Local("main")
  \/ StopOverlay /\ Local("main")
  \/ CaptureAndAnalyze /\ Background /\ UNCHANGED engineVars
  \/ MayStart /\ HotwordDetected /\ Local("audio")
  \/ \E action \in HotkeyActions :
       MayStart /\ HotkeyPressed(action) /\ Local("kbd")
  \/ \E t \in HandlerThreads : ActivateSet(t) /\ Local(t)
  \/ \E t \in HandlerThreads : ActivateBranch(t) /\ Local(t)
  \/ \E t \in HandlerThreads : ActivateShow(t) /\ Local(t)
  \/ \E t \in HandlerThreads : ActivateWelcome(t) /\ Local(t)
  \/ \E t \in HandlerThreads : ActivateReturns(t) /\ Local(t)
  \/ DeactivateSet("kbd") /\ Local("kbd")
  \/ DeactivateHide("kbd") /\ Local("kbd")
  \/ DeactivateReturns("kbd") /\ Local("kbd")
  \/ ToggleHide("kbd") /\ Local("kbd")
  \/ ToggleShow("kbd") /\ Local("kbd")
  \/ ToggleReturns("kbd") /\ Local("kbd")
  \/ NoVoiceCommand /\ Local("audio")
  \/ \E text \in Texts : MayStart /\ VoiceCommand(text) /\ WithEngine("audio")
  \/ VoiceCommandResult /\ WithEngine("audio")
  \/ VoiceCommandReturns /\ Local("audio")
  \/ AudioLoopExits /\ Local("audio")
  \/ MayStart /\ SuggestionLoopGenerates /\ WithEngine("sugg")
  \/ SuggestionLoopResult /\ WithEngine("sugg")
  \/ SuggestionLoopExits /\ Local("sugg")
  \/ MayStart /\ MainLoopIteration /\ WithEngine("mainloop")
  \/ MainLoopResult /\ WithEngine("mainloop")
  \/ MainLoopExits /\ Local("mainloop")
  \/ \E c \in AppCallers : SleepReturns(c) /\ InEngine
  \/ \E c \in AppCallers : \E outcome \in AppOutcomes(eng[c].op) :
       ProviderReturns(c, outcome) /\ InEngine
  \/ Tick /\ InEngine
  \/ FadeAnimationEnds /\ Background /\ UNCHANGED engineVars
  \/ AutoHide /\ Background /\ UNCHANGED engineVars

Spec == Init /\ [][Next]_vars

\* ------------------------------------- properties of the activation state

\* The step is the assignment self.is_active = True of _activate_copilot,
\* run for a hotword or for the activate hotkey.
ActivationStep(t) == pc[t] = "act_set" /\ pc'[t] = "act_branch"

\* The step is the assignment self.is_active = False of _deactivate_copilot.
DeactivationStep(t) == pc[t] = "deact_set" /\ pc'[t] = "deact_hide"

\* Thread t is in _activate_copilot past its test, or at its end.
Activating(t) == pc[t] \in ActivatePcs \cup {"act_done"}

\* C5. Activation totality: is_active goes from Idle to Active only in the
\* handler of a hotword or of the activate hotkey, and from Active to Idle
\* only in the handler of the deactivate hotkey; no other step (start, stop,
\* toggle, voice command, tick, suggestion result) changes it.
C5_ActivationTotality ==
  [][/\ (~is_active /\ is_active') => \E t \in HandlerThreads : ActivationStep(t)
     /\ (is_active /\ ~is_active') => \E t \in HandlerThreads : DeactivationStep(t)]_vars

\* C6. The activation state starts Idle: it is Idle after construction, and
\* start() leaves an Idle application Idle, so that it stays Idle until a
\* hotword or an activate hotkey is handled.
C6_StartsIdle ==
  /\ ~is_active
  /\ [][(pc["main"] \in {"constructed", "start_flags", "start_welcome"}
         /\ pc'["main"] # pc["main"] /\ ~is_active) => ~is_active']_vars

\* C7. Activation is idempotent: a handler of a hotword or of the activate
\* hotkey that finds the state Active makes no transition and no overlay
\* call; one that finds it Idle (and is not interfered with) makes exactly
\* one Idle-to-Active transition and exactly one display request, of the
\* last-known suggestions if there are any and else of the welcome batch.
\* Two events in a row from Idle: the first is of the second kind, the
\* second of the first.
C7_ActivationIdempotent ==
  \A t \in HandlerThreads :
    pc[t] = "act_done" =>
      /\ handler[t].observed = "Active" =>
           /\ handler[t].transitions = 0
           /\ handler[t].displays = 0
           /\ handler[t].hides = 0
           /\ called[t] = NoCall
      /\ (handler[t].observed = "Idle" /\ handler[t].quiet) =>
           /\ is_active
           /\ handler[t].transitions = 1
           /\ handler[t].displays = 1
           /\ called[t] = Call("create_overlay",
                               IF last_suggestions # <<>> THEN last_suggestions
                               ELSE WelcomeSuggestions)

\* C7, witness: the activate hotkey was handled from Idle (one transition,
\* one display) and the hotword that came next was a no-op.
C7_Witness ==
  /\ pc["kbd"] = "act_done" /\ pc["audio"] = "act_done"
  /\ handler["kbd"].observed = "Idle" /\ handler["kbd"].quiet
  /\ handler["kbd"].transitions = 1 /\ handler["kbd"].displays = 1
  /\ handler["audio"].observed = "Active" /\ handler["audio"].displays = 0
  /\ is_active

\* C8. Concurrent dual activation: when the handler of a hotword (audio
\* thread) and the handler of the activate hotkey (keyboard thread) both
\* found the state Idle, and no third thread wrote the state meanwhile,
\* there is one display for the one Idle-to-Active transition: the displays
\* the two request do not outnumber the transitions they make.
C8_SingleActivation ==
  (/\ Activating("audio") /\ Activating("kbd")
   /\ handler["audio"].observed = "Idle" /\ handler["kbd"].observed = "Idle"
   /\ ~handler["audio"].outside /\ ~handler["kbd"].outside)
    => handler["audio"].displays + handler["kbd"].displays
         <= handler["audio"].transitions + handler["kbd"].transitions

\* C9. Activation events are serialised: at no time are two
\* activation-relevant handlers (hotword, activate, deactivate, toggle)
\* executing at once.
C9_SingleConsumer == ~(InHandler("audio") /\ InHandler("kbd"))

\* C10. The deactivate hotkey: a handler that finds the state Active makes
\* it Idle and requests a hide of the overlay; one that finds it Idle
\* changes nothing and requests no hide.
C10_Deactivate ==
  \A t \in HandlerThreads :
    pc[t] = "deact_done" =>
      /\ handler[t].observed = "Active" =>
           /\ handler[t].hides = 1
           /\ called[t] = Call("hide_overlay", <<>>)
           /\ handler[t].quiet => (~is_active /\ handler[t].transitions = 1)
      /\ handler[t].observed = "Idle" =>
           /\ handler[t].transitions = 0
           /\ handler[t].hides = 0
           /\ handler[t].displays = 0
           /\ called[t] = NoCall

\* C10, witness: the deactivate hotkey was handled from Active; the state
\* is Idle and the overlay, which was visible, is fading out.
C10_Witness ==
  /\ pc["kbd"] = "deact_done"
  /\ handler["kbd"].observed = "Active" /\ handler["kbd"].quiet
  /\ handler["kbd"].hides = 1
  /\ ~is_active
  /\ overlay.is_visible /\ overlay.fade = -1

\* --------------------------------- properties of toggle and voice commands

\* The step is the last statement of _toggle_overlay on the keyboard thread.
ToggleStep == pc["kbd"] \in TogglePcs /\ pc'["kbd"] = "tog_done"

\* C11. The toggle hotkey flips the visibility of the overlay and leaves the
\* activation state alone: a handler that found the overlay hidden leaves
\* it visible, one that found it visible leaves it hidden or fading out,
\* and is_active is the same before and after.
C11_ToggleFlips ==
  [][ToggleStep =>
       /\ is_active' = is_active
       /\ pc["kbd"] = "tog_show" => overlay'.is_visible
       /\ pc["kbd"] = "tog_hide" =>
            (~overlay'.is_visible \/ overlay'.fade = -1)]_vars

\* The step is the call of generate_suggestions that _on_voice_command makes.
VoiceCommandStep == pc["audio"] = "record" /\ pc'["audio"] = "in_call"

\* A step of _on_voice_command, from its call to its return.
VoiceCommandHandling ==
  /\ pc["audio"] \in {"record", "in_call", "vc_done"}
  /\ pc'["audio"] \in {"in_call", "vc_done", "listen"}
  /\ pc'["audio"] # pc["audio"]

\* C12. A voice command never changes the activation state, and it is
\* forwarded to the engine (generate_suggestions is called for it) only
\* while the state is Active.
C12_VoiceCommandOnlyWhenActive ==
  [][/\ VoiceCommandHandling => is_active' = is_active
     /\ VoiceCommandStep => is_active]_vars

\* ------------------------------------- properties of the screen context

\* C13. Context replacement: a read made after the screen thread has written
\* a snapshot (and while it is writing none) returns exactly the fields of
\* the snapshot written last, with nothing carried over from an earlier one.
C13_ContextReplacement ==
  \A r \in Readers :
    (held[r].has /\ ~held[r].concurrent)
      => held[r].returned = held[r].last_written

\* C14. No torn reads: a read made while a capture cycle is between its
\* analysis and its update returns either the complete snapshot written
\* last or the complete new one, never fields of two cycles.
C14_NoTornRead ==
  \A r \in Readers :
    (held[r].has /\ held[r].concurrent)
      => held[r].returned \in {held[r].last_written, held[r].incoming}

\* C15. A snapshot returned by get_current_context is a copy no later write
\* changes: whatever the screen thread writes afterwards, the dictionary a
\* reader holds reads, key by key and list by list, as it did when it was
\* returned.
C15_SnapshotUnchanged ==
  \A r \in Readers :
    held[r].has => Deref(held[r].snapshot) = held[r].returned

\* C15, witness: the main loop holds the snapshot of a screen with a code
\* snippet and no error indicator, and the store has been written since: it
\* now holds an error indicator and no snippet.
C15_Witness ==
  /\ held["mainloop"].has
  /\ held["mainloop"].returned = CtxCode
  /\ Deref(held["mainloop"].snapshot).code_snippets = CtxCode.code_snippets
  /\ screen_context = CtxError
  /\ capture.written = CtxError

\* ------------------------------- properties of the engine's error handling

\* The loops that capture input: the screen thread, the audio thread and
\* the keyboard library's listener thread.
SensorLoops == {"screen", "audio", "kbd"}

\* Caller c is in a provider call or in the rate limiter's sleep.
InProviderCall(c) == eng[c].pc \in {"sleep", "await"}

\* C16. Provider calls are never made on the thread of a sensor loop: no
\* sensor loop is ever inside a provider call or a rate-limiter wait, where
\* a slow provider would keep it from capturing; in particular a voice
\* command's provider call is not made on the audio thread.
C16_ProviderOffSensorLoops ==
  \A c \in AppCallers \cap SensorLoops : ~InProviderCall(c)

\* C17. When _initialize_client failed, the engine is uninitialised and
\* every call of generate_suggestions, suggest_fixes, analyze_code_quality
\* and generate_documentation returns the "not initialized" error at once:
\* no caller is ever in the rate limiter's sleep or in a provider call, so
\* no thread is held by the engine.
C17_UninitializedShortCircuits ==
  ~is_initialized =>
    \A c \in Callers :
      /\ ~InProviderCall(c)
      /\ eng[c].pc = "done" =>
           eng[c].result = ErrorResult("AI Engine not initialized")

\* C17, witness: with the engine uninitialised, a call of
\* generate_suggestions and one of generate_documentation have returned
\* the error.
C17_Witness ==
  /\ ~is_initialized
  /\ eng["c1"].pc = "done" /\ eng["c1"].op = "generate_suggestions"
  /\ eng["c1"].result = ErrorResult("AI Engine not initialized")
  /\ eng["c2"].pc = "done" /\ eng["c2"].op = "generate_documentation"
  /\ eng["c2"].result = ErrorResult("AI Engine not initialized")

\* C18. No operation throws across its boundary: whatever the provider call
\* ends with (a response, or an authentication, network, time-out or
\* rate-limit exception), the operation returns a value to its caller, and
\* for an exception that value carries an error field.
C18_NoThrow ==
  [][\A c \in Clients, outcome \in Outcomes :
       ProviderReturns(c, outcome) =>
         /\ eng'[c].pc = "done"
         /\ eng'[c].result.kind \in {"batch", "json", "error"}
         /\ outcome.kind = "raise" => HasError(eng'[c].result)]_vars

\* C18, witness: generate_suggestions has returned the error of a provider
\* time-out and analyze_code_quality that of an authentication failure.
C18_Witness ==
  /\ eng["c1"].pc = "done" /\ eng["c1"].op = "generate_suggestions"
  /\ eng["c1"].result = ErrorResult("timeout")
  /\ eng["c2"].pc = "done" /\ eng["c2"].op = "analyze_code_quality"
  /\ eng["c2"].result = ErrorResult("auth")

\* C19. A malformed provider response is never surfaced as an error: for
\* every response text the provider returns, the operation returns a result
\* without an error field.
C19_ParseErrorNeverSurfaced ==
  [][\A c \in Clients, outcome \in Responses :
       ProviderReturns(c, outcome) => ~HasError(eng'[c].result)]_vars

\* C20. Fallback parsing: for a response text that is no JSON,
\* generate_suggestions returns a batch with exactly one suggestion, of type
\* "general", whose description is the text in full; the summary alone is
\* cut (to SummaryLimit characters and "...").
C20_FallbackParsing ==
  [][\A c \in Clients, outcome \in Responses :
       (ProviderReturns(c, outcome) /\ eng[c].op \in GatedOps
        /\ outcome.kind = "text")
         => /\ ~HasError(eng'[c].result)
            /\ Len(eng'[c].result.suggestions) = 1
            /\ eng'[c].result.suggestions[1].type = "general"
            /\ eng'[c].result.suggestions[1].description = outcome.body
            /\ Len(eng'[c].result.summary) <= SummaryLimit + 3
            /\ StartsWith(outcome.body,
                          SubSeq(eng'[c].result.summary, 1,
                                 Min(Len(outcome.body), SummaryLimit)))]_vars

\* C20, witness: generate_suggestions has returned the batch of a text of
\* 260 characters (description in full, summary cut) and that of a text
\* that opens like an object and is no JSON.
C20_Witness ==
  /\ eng["c1"].pc = "done" /\ eng["c1"].op = "generate_suggestions"
  /\ Len(eng["c1"].result.suggestions) = 1
  /\ eng["c1"].result.suggestions[1].description = RespLongText.body
  /\ Len(eng["c1"].result.suggestions[1].description) > SummaryLimit
  /\ Len(eng["c1"].result.summary) = SummaryLimit + 3
  /\ eng["c2"].pc = "done" /\ eng["c2"].op = "generate_suggestions"
  /\ Len(eng["c2"].result.suggestions) = 1
  /\ eng["c2"].result.suggestions[1].description = RespInvalidJson.body

\* ------------------------------------------------ structured responses

\* The longest "suggestions" list of a structured response.
MaxSuggestions == 3

\* Candidate suggestions of a structured response: with every key, with a
\* title and a priority only (RawTitled), without a title (RawUntitled), and
\* with a title that is the empty string.
RawFull == [type |-> "optimization", title |-> "Cache the result",
            description |-> "memoize it", code |-> "@cache", priority |-> "low"]
RawEmptyTitle == [type |-> "style", title |-> "", priority |-> "low"]

RawSuggestions == {RawTitled, RawUntitled, RawFull, RawEmptyTitle}

\* Whether a structured response has a "confidence", and its value in tenths.
Confidences == {<<FALSE, 0>>, <<TRUE, 3>>, <<TRUE, 9>>}

\* The keys of a suggestion, in the order they are written.
SuggestionKeys == <<"type", "title", "description", "code", "priority">>

\* json.dumps of a candidate suggestion, and of a list of them.
RECURSIVE DumpsFields(_, _)
DumpsFields(s, keys) ==
  IF keys = <<>> THEN ""
  ELSE LET k == Head(keys)
           rest == DumpsFields(s, Tail(keys))
       IN IF k \in DOMAIN s
          THEN "\"" \o k \o "\": \"" \o s[k] \o "\""
               \o (IF rest = "" THEN "" ELSE ", " \o rest)
          ELSE rest

RECURSIVE DumpsList(_)
DumpsList(raw) ==
  IF raw = <<>> THEN ""
  ELSE "{" \o DumpsFields(Head(raw), SuggestionKeys) \o "}"
       \o (IF Len(raw) > 1 THEN ", " \o DumpsList(Tail(raw)) ELSE "")

\* The response text of the object {"suggestions": raw, "summary":
\* "review", "confidence": confidence}, with what json.loads makes of it.
StructuredResponse(raw, confidence) ==
  [kind |-> "json",
   body |-> "{\"suggestions\": [" \o DumpsList(raw) \o "], \"summary\": \"review\""
            \o (IF confidence[1]
                THEN ", \"confidence\": 0." \o ToString(confidence[2]) ELSE "")
            \o "}",
   dkeys |-> {"suggestions", "summary"}
             \cup (IF confidence[1] THEN {"confidence"} ELSE {}),
   nulls |-> {},
   suggestions |-> raw, fixes |-> <<>>, summary |-> "review",
   confidence |-> confidence[2]]

StructuredResponses ==
  {StructuredResponse(raw, confidence) :
     raw \in UNION {[1 .. n -> RawSuggestions] : n \in 0 .. MaxSuggestions},
     confidence \in Confidences}

\* ------------------------- the engine answering with structured responses

\* One client calls the engine, and the provider answers each call with a
\* structured response.
ParseClients == {"c1"}

InitParse ==
  EngineInit /\ HistoryInit /\ AppInit /\ HandlerInit /\ ScreenInit /\ AuxInit

ParseNext ==
  \/ \E c \in ParseClients : ClientCalls(c) /\ HistoryStep /\ AppIdle
  \/ \E c \in ParseClients : SleepReturns(c) /\ HistoryStep /\ AppIdle
  \/ \E c \in ParseClients, outcome \in StructuredResponses :
       ProviderReturns(c, outcome) /\ HistoryStep /\ AppIdle
  \/ \E c \in ParseClients : ClientGetsResult(c) /\ HistoryStep /\ AppIdle
  \/ Tick /\ HistoryTick /\ AppIdle

SpecParse == InitParse /\ [][ParseNext]_vars

\* ------------------------------------- properties of the structured parse

\* The candidates of a response that have a "title" key, in their order.
Titled(raw) == SelectSeq(raw, LAMBDA s : "title" \in DOMAIN s)

\* The step is the return of generate_suggestions to client c for the
\* structured response `outcome`.
StructuredReturn(c, outcome) ==
  ProviderReturns(c, outcome) /\ eng[c].op \in GatedOps

\* C21. After a structured parse every suggestion of the batch has a
\* non-empty title, a type and a priority, and the candidates with no title
\* or with an empty title are dropped: the batch has as many suggestions as
\* the response has candidates with a non-empty title.
C21_SuggestionsValidated ==
  [][\A c \in ParseClients, outcome \in StructuredResponses :
       StructuredReturn(c, outcome) =>
         LET batch == eng'[c].result.suggestions
             raw == outcome.suggestions
         IN /\ \A i \in 1 .. Len(batch) :
                 /\ batch[i].title # ""
                 /\ batch[i].type # ""
                 /\ batch[i].priority # ""
            /\ Len(batch) = Cardinality({i \in 1 .. Len(raw) :
                                           Get(raw[i], "title", "") # ""})]_vars

\* C22. For a structured response, generate_suggestions returns the titled
\* candidates in the order of the response, each with its priority (the
\* default "medium" when it has none), and the confidence of the response
\* (the default 0.5 when it has none).
C22_OrderAndPriority ==
  [][\A c \in ParseClients, outcome \in StructuredResponses :
       StructuredReturn(c, outcome) =>
         LET batch == eng'[c].result
             titled == Titled(outcome.suggestions)
         IN /\ ~HasError(batch)
            /\ Len(batch.suggestions) = Len(titled)
            /\ \A i \in 1 .. Len(titled) :
                 /\ batch.suggestions[i].title = titled[i].title
                 /\ batch.suggestions[i].priority
                      = Get(titled[i], "priority", "medium")
            /\ batch.confidence = IF "confidence" \in outcome.dkeys
                                  THEN outcome.confidence ELSE 5]_vars

\* C22, witness: generate_suggestions has returned, for a response with the
\* candidates "Cache the result" (low), an untitled one and "Use a colon"
\* (high) and the confidence 0.9, the two titled ones in that order with
\* their priorities and the confidence 0.9.
C22_Witness ==
  /\ eng["c1"].pc = "done" /\ eng["c1"].op = "generate_suggestions"
  /\ Len(eng["c1"].result.suggestions) = 2
  /\ eng["c1"].result.suggestions[1].title = RawFull.title
  /\ eng["c1"].result.suggestions[1].priority = "low"
  /\ eng["c1"].result.suggestions[2].title = RawTitled.title
  /\ eng["c1"].result.suggestions[2].priority = "high"
  /\ eng["c1"].result.confidence = 9

\* ------------------------------------------------ the suggestion cache

\* The context hashes used as cache keys, and the suggestions stored.
CacheKeys == {"hash1"}
CachedSuggestions == {"batch1", "batch2"}

\* The entry of a key (there is at most one, as in a dictionary): the entry
\* and the key itself are tested as the code tests them.
Cached(cache, context_hash) == {e \in cache : e.key = context_hash}

\* get_cached_suggestion without the test of Config.ENABLE_CACHING.
GetCachedSuggestionUnconfigured(cache, context_hash) ==
  IF \E e \in Cached(cache, context_hash) : e.age < CACHE_TTL
  THEN (CHOOSE e \in Cached(cache, context_hash) : TRUE).suggestion
  ELSE None

\* get_cached_suggestion without the test of the entry's age.
GetCachedSuggestionNoExpiry(cache, context_hash) ==
  IF enable_caching /\ Cached(cache, context_hash) # {}
  THEN (CHOOSE e \in Cached(cache, context_hash) : TRUE).suggestion
  ELSE None

\* get_cached_suggestion(context_hash): the suggestion stored under the
\* key if caching is enabled, the key is in the cache and its entry is less
\* than CACHE_TTL old; else None.
GetCachedSuggestion(cache, context_hash) ==
  IF enable_caching /\ Cached(cache, context_hash) # {}
  THEN IF \E e \in Cached(cache, context_hash) : e.age < CACHE_TTL
       THEN (CHOOSE e \in Cached(cache, context_hash) : TRUE).suggestion
       ELSE None
  ELSE None

\* cache_suggestion(context_hash, suggestion): if caching is enabled the
\* entry of the key is set, with the time of now.
CacheSuggestion(cache, context_hash, suggestion) ==
  IF enable_caching
  THEN (cache \ Cached(cache, context_hash))
       \cup {[key |-> context_hash, age |-> 0, suggestion |-> suggestion]}
  ELSE cache

\* A client calls get_cached_suggestion.
LooksUp(context_hash) ==
  /\ lookup' = [key |-> context_hash,
                value |-> GetCachedSuggestion(suggestion_cache, context_hash),
                present |-> Cached(suggestion_cache, context_hash) # {},
                enabled |-> enable_caching]
  /\ UNCHANGED <<engineVars, enable_caching, stored>>

\* A client calls cache_suggestion; a call made while caching is enabled
\* is remembered as the key's latest store.
Stores(context_hash, suggestion) ==
  /\ suggestion_cache' = CacheSuggestion(suggestion_cache, context_hash, suggestion)
  /\ stored' = IF enable_caching
               THEN [stored EXCEPT ![context_hash] =
                       [suggestion |-> suggestion, age |-> 0]]
               ELSE stored
  /\ UNCHANGED <<is_initialized, elapsed_since_request, eng, enable_caching,
                 lookup>>

\* clear_cache(): what was stored is put away.
ClearCache ==
  /\ suggestion_cache # {}
  /\ suggestion_cache' = {}
  /\ stored' = [k \in CacheKeys |-> NotStored]
  /\ UNCHANGED <<is_initialized, elapsed_since_request, eng, enable_caching,
                 lookup>>

\* Config.ENABLE_CACHING is set (it is a class attribute, read at each call).
SetEnableCaching(value) ==
  /\ enable_caching # value
  /\ enable_caching' = value
  /\ UNCHANGED <<engineVars, lookup, stored>>

\* A client calls generate_suggestions(context).
Generates(c) ==
  /\ eng[c].pc = "idle"
  /\ \E context \in ClientContexts :
       eng' = [eng EXCEPT ![c] =
                 EnterOperation("generate_suggestions", context, None, None)]
  /\ UNCHANGED <<is_initialized, elapsed_since_request, suggestion_cache>>

\* One client uses the cache and calls generate_suggestions.
CacheClients == {"c1"}

\* The provider's answers while the cache is studied.
CacheOutcomes == {RespJson, Raise}

\* A step of the cache's methods or of the configuration, and one of the
\* engine's operations.
CacheOnly ==
  UNCHANGED <<historyVars, appVars, handlerVars, screenVars, loopVars, sensorVars,
              keyVars, restartVars>>
EngineOnly ==
  UNCHANGED <<appVars, handlerVars, screenVars, cacheVars, loopVars, sensorVars,
              keyVars, restartVars>>

\* A tick while the cache is studied: the stores get older with the
\* entries (their age is followed up to CACHE_TTL).
CacheTick ==
  /\ stored' = [k \in CacheKeys |->
                  IF stored[k].suggestion = None THEN stored[k]
                  ELSE [stored[k] EXCEPT !.age = Min(@ + 1, CACHE_TTL)]]
  /\ UNCHANGED <<appVars, handlerVars, screenVars, enable_caching, lookup,
                 loopVars, sensorVars, keyVars, restartVars>>

InitCache ==
  EngineInit /\ HistoryInit /\ AppInit /\ HandlerInit /\ ScreenInit /\ AuxInit

CacheNext ==
  \/ \E value \in BOOLEAN : SetEnableCaching(value) /\ CacheOnly
  \/ \E context_hash \in CacheKeys : LooksUp(context_hash) /\ CacheOnly
  \/ \E context_hash \in CacheKeys, suggestion \in CachedSuggestions :
       Stores(context_hash, suggestion) /\ CacheOnly
  \/ ClearCache /\ CacheOnly
  \/ \E c \in CacheClients : Generates(c) /\ HistoryStep /\ EngineOnly
  \/ \E c \in CacheClients : SleepReturns(c) /\ HistoryStep /\ EngineOnly
  \/ \E c \in CacheClients, outcome \in CacheOutcomes :
       ProviderReturns(c, outcome) /\ HistoryStep /\ EngineOnly
  \/ \E c \in CacheClients : ClientGetsResult(c) /\ HistoryStep /\ EngineOnly
  \/ Tick /\ HistoryTick /\ CacheTick

SpecCache == InitCache /\ [][CacheNext]_vars

\* C23. With caching disabled by configuration every call bypasses the
\* cache: get_cached_suggestion returns nothing, even for a key stored
\* earlier; cache_suggestion leaves the cache as it is; and every call of
\* generate_suggestions (on an initialised engine) goes to the provider,
\* at once or after the rate limiter's sleep.
C23_CacheDisabled ==
  [][~enable_caching =>
       /\ \A context_hash \in CacheKeys :
            LooksUp(context_hash) => lookup'.value = None
       /\ \A context_hash \in CacheKeys, suggestion \in CachedSuggestions :
            Stores(context_hash, suggestion)
              => suggestion_cache' = suggestion_cache
       /\ \A c \in CacheClients :
            (Generates(c) /\ is_initialized)
              => eng'[c].pc \in {"sleep", "await"}
       /\ \A c \in CacheClients :
            eng[c].pc = "sleep" => eng'[c].pc \in {"sleep", "await"}]_vars

\* C23, witness: with caching disabled, a key stored earlier (and not yet
\* expired) has been looked up and nothing was returned, the entry is still
\* in the cache, and a call of generate_suggestions is at the provider.
C23_Witness ==
  /\ ~enable_caching
  /\ lookup.present /\ ~lookup.enabled /\ lookup.value = None
  /\ \E e \in suggestion_cache : e.key = lookup.key /\ e.age < CACHE_TTL
  /\ eng["c1"].pc = "await"

\* ------------------------------------------------ properties of shutdown

\* The orchestrator's loops: the suggestion loop and the main loop.
OrchestratorLoops == {"sugg", "mainloop"}

\* Every sensor has been stopped: the screen monitor, the audio processor
\* and the keyboard handler.
SensorsStopped == ~is_monitoring /\ ~is_listening /\ hotkeys = {}

\* stop() has been called and has set its flags.
StopIssued == pc["main"] \in {"stop_sensors", "stop_overlay", "stopped"}

\* The step is the return of thread t's engine call to the application,
\* which handles the result.
ResultStep(t) == pc[t] = "in_call" /\ pc'[t] # "in_call"

\* C25. Shutdown order: the sensors are stopped first, then the
\* orchestrator's loops, then the overlay is destroyed.  A loop exits only
\* once the sensors are stopped, the overlay is destroyed only once both
\* loops have exited, and no step of a loop changes the overlay after it
\* has been destroyed.
C25_ShutdownOrder ==
  [][/\ \A l \in OrchestratorLoops :
          (pc[l] # "exited" /\ pc'[l] = "exited") => SensorsStopped
     /\ (pc["main"] = "stop_overlay" /\ pc'["main"] = "stopped")
          => \A l \in OrchestratorLoops : pc[l] = "exited"
     /\ \A l \in OrchestratorLoops :
          (pc["main"] = "stopped" /\ pc'[l] # pc[l]) => overlay' = overlay]_vars

\* C26. The result of a provider call that returns after the system has
\* been deactivated or stopped is discarded: the step that handles it
\* neither stores it as the last-known suggestions nor calls the overlay.
C26_LateResultDiscarded ==
  [][\A t \in AppCallers :
       (ResultStep(t) /\ (~is_active \/ StopIssued))
         => /\ last_suggestions' = last_suggestions
            /\ overlay' = overlay]_vars

\* ------------------------------------- the orchestrator's loops on their own

\* The history of the loops after a step: a loop that handles the result of
\* its engine call remembers whether it was an error; one that makes a call
\* remembers whether the call before it failed.
AttemptAfter(l) ==
  IF ResultStep(l)
  THEN [failed |-> eng[l].result.kind = "error", retry |-> FALSE]
  ELSE IF pc[l] # "in_call" /\ pc'[l] = "in_call"
  THEN [attempt[l] EXCEPT !.retry = attempt[l].failed]
  ELSE attempt[l]

LoopStep ==
  attempt' = [sugg |-> AttemptAfter("sugg"), mainloop |-> AttemptAfter("mainloop")]

\* The steps of the application while no hotword is spoken and no hotkey
\* pressed: start() and stop(), the screen thread, the two loops, the
\* engine and the overlay's own threads.
LoopLocal(t) ==
  /\ HandlerStep(t)
  /\ UNCHANGED <<engineVars, historyVars, screenVars, cacheVars, sensorVars,
                 keyVars, restartVars>>
  /\ LoopStep
LoopWithEngine(t) ==
  /\ HandlerStep(t)
  /\ UNCHANGED <<historyVars, screenVars, cacheVars, sensorVars, keyVars, restartVars>>
  /\ LoopStep
LoopBackground ==
  /\ UNCHANGED <<handlerVars, historyVars, screenVars, cacheVars, sensorVars,
                 keyVars, restartVars>>
  /\ LoopStep
LoopInEngine ==
  /\ UNCHANGED <<appVars, handlerVars, historyVars, screenVars, cacheVars,
                 sensorVars, keyVars, restartVars>>
  /\ LoopStep

InitLoops ==
  EngineInit /\ HistoryInit /\ AppInit /\ HandlerInit /\ ScreenInit /\ AuxInit

LoopsNext ==
  \/ StartSensors /\ LoopLocal("main")
  \/ StartFlags /\ LoopLocal("main")
  \/ StartWelcome /\ LoopLocal("main")
  \/ StopFlags /\ LoopLocal("main")
  \/ StopSensors /\ LoopLocal("main")
  \/ StopOverlay /\ LoopLocal("main")
  \/ CaptureAndAnalyze /\ UNCHANGED engineVars /\ LoopBackground
  \/ SuggestionLoopGenerates /\ LoopWithEngine("sugg")
  \/ SuggestionLoopResult /\ LoopWithEngine("sugg")
  \/ SuggestionLoopExits /\ LoopLocal("sugg")
  \/ MainLoopIteration /\ LoopWithEngine("mainloop")
  \/ MainLoopResult /\ LoopWithEngine("mainloop")
  \/ MainLoopExits /\ LoopLocal("mainloop")
  \/ \E c \in OrchestratorLoops : SleepReturns(c) /\ LoopInEngine
  \/ \E c \in OrchestratorLoops : \E outcome \in AppOutcomes(eng[c].op) :
       ProviderReturns(c, outcome) /\ LoopInEngine
  \/ Tick /\ LoopInEngine
  \/ FadeAnimationEnds /\ UNCHANGED engineVars /\ LoopBackground
  \/ AutoHide /\ UNCHANGED engineVars /\ LoopBackground

SpecLoops == InitLoops /\ [][LoopsNext]_vars

\* C27. A batch that carries a provider error is neither stored as the
\* last-known suggestions nor sent to the overlay, and the failure does not
\* end the loop: the loop is back at its test with no call pending, it can
\* make its next call whenever the conditions of a call hold, and that call
\* goes to the provider like any other.
C27_ErrorNotForwarded ==
  [][/\ \A l \in OrchestratorLoops :
          (ResultStep(l) /\ eng[l].result.kind = "error")
            => /\ last_suggestions' = last_suggestions
               /\ overlay' = overlay
               /\ pc'[l] = "loop"
               /\ eng'[l] = IdleCall
               /\ is_running' = is_running
     /\ (attempt["sugg"].failed /\ pc["sugg"] = "loop" /\ is_running
         /\ is_active /\ Truthy(current_context))
          => ENABLED SuggestionLoopGenerates
     /\ \A l \in OrchestratorLoops :
          (attempt[l].failed /\ pc[l] = "loop" /\ pc'[l] = "in_call"
           /\ is_initialized)
            => eng'[l].pc \in {"sleep", "await"}]_vars

\* C27, witness: the suggestion loop stored a batch, its next call failed,
\* and the call after that is at the provider; the stored batch is still the
\* last-known one.
C27_Witness ==
  /\ is_running
  /\ pc["sugg"] = "in_call" /\ eng["sugg"].pc = "await"
  /\ attempt["sugg"].failed /\ attempt["sugg"].retry
  /\ last_suggestions # <<>>

\* ------------------------------------------- properties of the periodic calls

\* The step is the call by which loop l sends a request to the provider:
\* generate_suggestions of the suggestion loop, or suggest_fixes of the
\* error-fix check.
PeriodicCall(l) ==
  /\ pc[l] = "loop" /\ pc'[l] = "in_call"
  /\ eng'[l].pc \in {"sleep", "await"}

HideCalled ==
  \/ \E t \in HandlerThreads : DeactivateHide(t) \/ ToggleHide(t)
  \/ AutoHide

\* C30. hide_overlay() is idempotent: called on a hidden overlay it changes
\* nothing and starts no fade, and a second call made right after a first
\* one changes nothing more.
C30_HideIdempotent ==
  [][HideCalled
       => /\ ~overlay.is_visible => overlay' = overlay
          /\ HideOverlay(overlay') = overlay']_vars

\* C30, witness: the deactivate hotkey called hide_overlay() before any
\* overlay window existed; nothing is visible and nothing fades.
C30_Witness ==
  /\ pc["main"] \in {"start_flags", "start_welcome"}
  /\ pc["kbd"] = "deact_done"
  /\ called["kbd"] = Call("hide_overlay", <<>>)
  /\ overlay = OverlayInit

\* ------------------------------------------------ the sensors' loops

Sensors == {"screen", "audio", "keyboard"}

\* What the recogniser can make of a recorded command.
Utterances == {"test and fix it", "what is this", "explain this"}

\* The event a callback of the audio loop delivers.
HotwordEvent == [type |-> "HotwordDetected", command |-> None, text |-> None]
VoiceCommandEvent(command, text) ==
  [type |-> "VoiceCommand", command |-> command, text |-> text]

\* A flag that stays set whatever stop() does.
RunFlagSet(s) == TRUE

\* The flag a sensor's loop tests: is_monitoring, is_listening,
\* KeyboardHandler.is_active.
RunFlag(s) ==
  CASE s = "screen" -> is_monitoring
    [] s = "audio" -> is_listening
    [] s = "keyboard" -> keyboard_active

SensorGoto(s, label) == sensor_pc' = [sensor_pc EXCEPT ![s] = label]

\* An iteration of s failed; logged tells whether a logger call reports it.
Fails(s, kind, logged) ==
  last_failure' = [sensor |-> s, kind |-> kind, logged |-> logged]

\* while self.is_monitoring / self.is_listening / self.is_active
LoopTest(s) ==
  /\ sensor_pc[s] = "test"
  /\ SensorGoto(s, IF RunFlag(s) THEN "body" ELSE "exited")
  /\ UNCHANGED <<keyboard_active, events, last_failure, appVars>>

\* ScreenMonitor._monitor_loop, one iteration: _capture_and_analyze updates
\* the context, or _capture_screen logs its exception and returns None, or
\* the analysis raises and _capture_and_analyze logs it.
ScreenOutcomes == {"captured", "capture_exception", "analysis_exception"}

ScreenIteration(outcome) ==
  /\ sensor_pc["screen"] = "body"
  /\ SensorGoto("screen", "test")
  /\ IF outcome = "captured"
     THEN /\ \E analysis \in Analyses :
               screen_context' = Update(screen_context, analysis)
          /\ UNCHANGED last_failure
     ELSE /\ Fails("screen", outcome, TRUE)
          /\ UNCHANGED screen_context
  /\ UNCHANGED <<keyboard_active, events, copilotVars, is_monitoring,
                 is_listening, hotkeys, callbacks, overlay, pc, called>>

\* KeyboardHandler._monitor_loop, one iteration: _check_key_combinations
\* and the 10 ms sleep, or an exception that the loop logs.
KeyboardOutcomes == {"polled", "poll_exception"}

KeyboardIteration(outcome) ==
  /\ sensor_pc["keyboard"] = "body"
  /\ SensorGoto("keyboard", "test")
  /\ IF outcome = "polled"
     THEN UNCHANGED last_failure
     ELSE Fails("keyboard", outcome, TRUE)
  /\ UNCHANGED <<keyboard_active, events, appVars>>

\* _audio_loop: self.audio.open(...); a failure is logged by the outer
\* handler and the function ends.
AudioOpens(opened) ==
  /\ sensor_pc["audio"] = "open"
  /\ SensorGoto("audio", IF opened THEN "test" ELSE "exited")
  /\ UNCHANGED <<keyboard_active, events, last_failure, appVars>>

\* _audio_loop, one iteration up to the hotword callback: stream.read and
\* _detect_hotword.  UnknownValueError is passed over in silence,
\* RequestError is logged as a warning, an exception of the read is logged
\* by the loop.  When the hotword is in the text, hotword_callback() is
\* called.
HotwordOutcomes ==
  {"hotword", "other_speech", "no_speech", "service_error", "read_exception"}

DetectHotword(outcome) ==
  /\ sensor_pc["audio"] = "body"
  /\ IF outcome = "hotword"
     THEN /\ SensorGoto("audio", "hotword_callback")
          /\ events' = <<HotwordEvent>>
          /\ UNCHANGED last_failure
     ELSE /\ SensorGoto("audio", "test")
          /\ UNCHANGED events
          /\ IF outcome = "other_speech"
             THEN UNCHANGED last_failure
             ELSE Fails("audio", outcome, outcome # "no_speech")
  /\ UNCHANGED <<keyboard_active, appVars>>

\* hotword_callback() returns, and _listen_for_command follows, or it
\* raises, and the loop logs the exception.
HotwordCallbackEnds(raised) ==
  /\ sensor_pc["audio"] = "hotword_callback"
  /\ IF raised
     THEN SensorGoto("audio", "test") /\ Fails("audio", "callback_exception", TRUE)
     ELSE SensorGoto("audio", "record") /\ UNCHANGED last_failure
  /\ UNCHANGED <<keyboard_active, events, appVars>>

\* _listen_for_command: the frames are read while is_listening holds and
\* recognised if there are any.  A text goes to _process_voice_command,
\* which calls voice_command_callback(command, text); UnknownValueError,
\* RequestError and any other exception are logged.
CommandOutcomes == {"no_frames", "no_speech", "service_error", "read_exception"}

ListenForCommand(outcome) ==
  /\ sensor_pc["audio"] = "record"
  /\ outcome = "no_frames" => ~is_listening
  /\ IF outcome \in Utterances
     THEN /\ SensorGoto("audio", "command_callback")
          /\ events' = Append(events, VoiceCommandEvent(VoiceCommandOf(outcome), outcome))
          /\ UNCHANGED last_failure
     ELSE /\ SensorGoto("audio", "test")
          /\ UNCHANGED events
          /\ IF outcome = "no_frames"
             THEN UNCHANGED last_failure
             ELSE Fails("audio", outcome, TRUE)
  /\ UNCHANGED <<keyboard_active, appVars>>

\* voice_command_callback(command, text) returns, or raises and
\* _process_voice_command logs the exception.
CommandCallbackEnds(raised) ==
  /\ sensor_pc["audio"] = "command_callback"
  /\ SensorGoto("audio", "test")
  /\ IF raised
     THEN Fails("audio", "callback_exception", TRUE)
     ELSE UNCHANGED last_failure
  /\ UNCHANGED <<keyboard_active, events, appVars>>

\* The statements of start() and stop(), with the threads start_monitoring
\* starts and the flag of the keyboard handler.
SensorMain ==
  /\ HandlerStep("main")
  /\ UNCHANGED <<engineVars, historyVars, screenVars, cacheVars, loopVars,
                 keyVars, restartVars, events, last_failure>>

SensorIdle == UNCHANGED <<sensor_pc, keyboard_active>>

SensorOnly ==
  UNCHANGED <<engineVars, historyVars, handlerVars, screenVars, cacheVars,
              loopVars, keyVars, restartVars>>

StartsLoops ==
  /\ sensor_pc' = [sensor_pc EXCEPT !["screen"] = "test", !["keyboard"] = "test"]
  /\ keyboard_active' = TRUE

InitSensors ==
  EngineInit /\ HistoryInit /\ AppInit /\ HandlerInit /\ ScreenInit /\ AuxInit

SensorStep(s) ==
  \/ LoopTest(s) /\ SensorOnly
  \/ s = "screen" /\ \E outcome \in ScreenOutcomes :
       ScreenIteration(outcome) /\ SensorOnly
  \/ s = "keyboard" /\ \E outcome \in KeyboardOutcomes :
       KeyboardIteration(outcome) /\ SensorOnly
  \/ s = "audio" /\ \E opened \in BOOLEAN : AudioOpens(opened) /\ SensorOnly
  \/ s = "audio" /\ \E outcome \in HotwordOutcomes :
       DetectHotword(outcome) /\ SensorOnly
  \/ s = "audio" /\ \E raised \in BOOLEAN :
       HotwordCallbackEnds(raised) /\ SensorOnly
  \/ s = "audio" /\ \E outcome \in CommandOutcomes \cup Utterances :
       ListenForCommand(outcome) /\ SensorOnly
  \/ s = "audio" /\ \E raised \in BOOLEAN :
       CommandCallbackEnds(raised) /\ SensorOnly

MainStep ==
  \/ StartSensors /\ StartsLoops /\ SensorMain
  \/ StartFlags /\ SensorIdle /\ SensorMain
  \/ StartWelcome /\ SensorIdle /\ SensorMain
  \/ StopFlags /\ SensorIdle /\ SensorMain
  \/ StopSensors /\ keyboard_active' = FALSE /\ UNCHANGED sensor_pc /\ SensorMain
  \/ StopOverlay /\ SensorIdle /\ SensorMain

SensorsNext ==
  \/ MainStep
  \/ \E s \in Sensors : SensorStep(s)

SpecSensors == InitSensors /\ [][SensorsNext]_vars

\* The threads run, and what they wait for comes: a thread that can take a
\* step takes one (the device delivers the next chunk, the recogniser
\* answers, a callback returns or raises: the provider call inside it is
\* made with the client's timeout), and a stop() that has begun goes on.
SpecSensorsFair ==
  /\ SpecSensors
  /\ WF_vars(MainStep /\ StopIssued)
  /\ \A s \in Sensors : WF_vars(SensorStep(s))

\* ------------------------------------------- properties of the sensors

AllExited == \A s \in Sensors : sensor_pc[s] = "exited"

\* C24. Once stop() is under way, every sensor loop comes to test its flag
\* and exits, the audio loop too when the stop finds it inside a callback;
\* a loop that has exited stays so and captures nothing more.
C24_SensorsExit ==
  /\ StopIssued ~> AllExited
  /\ [][\A s \in Sensors :
          sensor_pc[s] = "exited"
            => /\ sensor_pc'[s] = "exited"
               /\ s = "screen" => screen_context' = screen_context
               /\ s = "audio" => events' = events]_vars

\* C24, witness: stop() has cleared the flags while the audio loop is inside
\* the voice-command callback; the two other loops have already exited.
C24_Witness ==
  /\ pc["main"] \in {"stop_overlay", "stopped"}
  /\ ~is_listening
  /\ sensor_pc = [screen |-> "exited", audio |-> "command_callback",
                  keyboard |-> "exited"]

\* The steps in which an iteration of s's loop fails.
FailedIteration(s) ==
  \/ /\ s = "screen"
     /\ \E outcome \in ScreenOutcomes \ {"captured"} : ScreenIteration(outcome)
  \/ /\ s = "keyboard"
     /\ KeyboardIteration("poll_exception")
  \/ /\ s = "audio"
     /\ \/ \E outcome \in {"no_speech", "service_error", "read_exception"} :
             DetectHotword(outcome) \/ ListenForCommand(outcome)
        \/ HotwordCallbackEnds(TRUE)
        \/ CommandCallbackEnds(TRUE)

\* C28. A failed iteration of a sensor loop is logged and leaves the loop
\* at its test, from which it begins the next iteration if its flag is set.
C28_SensorErrorsLoggedNotFatal ==
  [][\A s \in Sensors :
       /\ FailedIteration(s)
            => /\ last_failure'.sensor = s
               /\ last_failure'.logged
               /\ sensor_pc'[s] = "test"
       /\ (LoopTest(s) /\ RunFlag(s)) => sensor_pc'[s] = "body"]_vars

\* The keys of the command table that the text contains.
KeysIn(text) ==
  {i \in 1..Len(VOICE_COMMANDS) : Contains(text, VOICE_COMMANDS[i])}

\* C29. What the audio loop delivers for an utterance begins with
\* HotwordDetected, holds at most one VoiceCommand after it, and that
\* command is the first key of the table, in the table's order, that the
\* text contains, or "query" when it contains none.
C29_AudioEventProtocol ==
  /\ Len(events) <= 2
  /\ events # <<>> => events[1] = HotwordEvent
  /\ Len(events) = 2 =>
       LET e == events[2] IN
         /\ e.type = "VoiceCommand"
         /\ IF KeysIn(e.text) = {}
            THEN e.command = "query"
            ELSE \E i \in KeysIn(e.text) :
                   /\ e.command = VOICE_COMMANDS[i]
                   /\ \A j \in KeysIn(e.text) : i <= j

\* C29, witness: after the hotword, "test and fix it" was delivered as the
\* command "fix", the earlier key of the table, though "test" is spoken
\* first.
C29_Witness ==
  events = <<HotwordEvent, VoiceCommandEvent("fix", "test and fix it")>>

\* ------------------------------------------ properties of publishing

\* A step in which a batch is sent to the overlay: the suggestion loop calls
\* update_suggestions, or a handler thread or the main loop calls
\* create_overlay.
UpdateSent ==
  /\ ResultStep("sugg")
  /\ eng["sugg"].result.kind # "error"
  /\ overlay.is_visible

CreateSent ==
  \/ \E t \in HandlerThreads :
       pc'[t] # pc[t] /\ called'[t].method = "create_overlay"
  \/ /\ ResultStep("mainloop")
     /\ eng["mainloop"].result.kind # "error"
     /\ eng["mainloop"].result.fixes # <<>>
     /\ overlay' = CreateOverlay(overlay)
     /\ is_active

\* C31. A batch is sent to the overlay only while the copilot is Active,
\* however the deactivate handler is interleaved with the suggestion loop,
\* the voice-command handler and the toggle handler.
C31_ActivationGatesPublishing ==
  [][(UpdateSent \/ CreateSent) => is_active]_vars

\* ------------------------------- properties of the engine under two callers

\* C32. The rate-limit check and update are atomic between callers: when two
\* callers (in the application, the suggestion loop and the audio thread's
\* voice-command handler) are in generate_suggestions at the same time, a
\* provider invocation of one never starts less than rate_limit_delay after
\* an invocation of the other.
C32_RateLimiterAtomic ==
  [][\A c, d \in Clients :
       (c # d /\ Invokes(c) /\ eng'[c].op \in GatedOps)
         => last_invocation[d].op \notin GatedOps]_vars

\* -------------------------------------------- properties of cache expiry

\* C33. With caching enabled, get_cached_suggestion(k) returns the batch
\* that cache_suggestion stored last under k exactly when less than
\* CACHE_TTL has passed since that store; an entry that is CACHE_TTL old or
\* older is never returned.
C33_CacheExpiry ==
  [][\A k \in CacheKeys :
       (LooksUp(k) /\ enable_caching)
         => lookup'.value =
              IF stored[k].suggestion # None /\ stored[k].age < CACHE_TTL
              THEN stored[k].suggestion
              ELSE None]_vars

\* C33, witness: a lookup made with caching enabled, CACHE_TTL after the
\* store of a batch that is still in the cache, returned nothing.
C33_Witness ==
  /\ lookup.enabled /\ lookup.present /\ lookup.value = None
  /\ enable_caching
  /\ stored[lookup.key].suggestion = "batch2"
  /\ stored[lookup.key].age = CACHE_TTL
  /\ \E e \in suggestion_cache : e.key = lookup.key /\ e.suggestion = "batch2"

\* ------------------------------------------------ the key combinations

Keys == {"ctrl", "a", "b"}

\* The combinations a client registers, each with its action (and a
\* callable callback).
KeyCombos == {[keys |-> {"ctrl", "a"}, action |-> "action_a"],
              [keys |-> {"ctrl", "b"}, action |-> "action_b"]}

\* The place of the combination in the dictionary (its key is the sorted
\* keys joined by "+"), or 0.
ComboIndex(combinations, keys) ==
  IF \E i \in 1..Len(combinations) : combinations[i].keys = keys
  THEN CHOOSE i \in 1..Len(combinations) : combinations[i].keys = keys
  ELSE 0

\* register_key_combination(keys, action, callback): the entry is written
\* with an empty 'pressed' set, in place if the key exists, else at the end.
RegisterKeyCombination(combo) ==
  /\ LET entry == [keys |-> combo.keys, action |-> combo.action, pressed |-> {}]
         i == ComboIndex(key_combinations, combo.keys)
     IN key_combinations' =
          IF i = 0 THEN Append(key_combinations, entry)
          ELSE [key_combinations EXCEPT ![i] = entry]
  /\ was_complete' = was_complete \ {combo.keys}
  /\ UNCHANGED <<keys_down, executed>>

\* clear_all_hotkeys(): self.key_combinations.clear()
ClearCombinations ==
  /\ key_combinations # <<>>
  /\ key_combinations' = <<>>
  /\ was_complete' = {}
  /\ UNCHANGED <<keys_down, executed>>

\* The user presses or releases a key.
KeyChanges(key) ==
  /\ keys_down' = IF key \in keys_down THEN keys_down \ {key}
                  ELSE keys_down \cup {key}
  /\ UNCHANGED <<key_combinations, executed, was_complete>>

\* _check_key_combinations from the i-th combination on: current_pressed is
\* created once, before the loop, and carried from one combination to the
\* next; each combination adds its pressed keys to it and discards its
\* released ones.  The result is the dictionary and the actions executed.
RECURSIVE CheckFrom(_, _, _, _, _)
CheckFrom(combinations, i, current_pressed, down, done) ==
  IF i > Len(combinations)
  THEN [key_combinations |-> combinations, executed |-> done]
  ELSE LET combo == combinations[i]
           current == (current_pressed \cup (combo.keys \cap down))
                        \ (combo.keys \ down)
       IN IF current = combo.keys /\ combo.pressed = {}
          THEN CheckFrom([combinations EXCEPT ![i].pressed = current],
                         i + 1, current, down, Append(done, combo.action))
          ELSE IF current # combo.keys /\ combo.pressed # {}
          THEN CheckFrom([combinations EXCEPT ![i].pressed = {}],
                         i + 1, current, down, done)
          ELSE CheckFrom(combinations, i + 1, current, down, done)

\* One iteration of the keyboard loop: _check_key_combinations().
CheckKeyCombinations ==
  /\ LET after == CheckFrom(key_combinations, 1, {}, keys_down, <<>>)
     IN /\ key_combinations' = after.key_combinations
        /\ executed' = after.executed
  /\ was_complete' = {key_combinations[i].keys : i \in
                        {j \in 1..Len(key_combinations) :
                           key_combinations[j].keys \subseteq keys_down}}
  /\ UNCHANGED keys_down

KeysOnly ==
  UNCHANGED <<engineVars, historyVars, appVars, handlerVars, screenVars,
              cacheVars, loopVars, sensorVars, restartVars>>

InitKeys ==
  EngineInit /\ HistoryInit /\ AppInit /\ HandlerInit /\ ScreenInit /\ AuxInit

KeysNext ==
  \/ \E combo \in KeyCombos : RegisterKeyCombination(combo) /\ KeysOnly
  \/ ClearCombinations /\ KeysOnly
  \/ \E key \in Keys : KeyChanges(key) /\ KeysOnly
  \/ CheckKeyCombinations /\ KeysOnly

SpecKeys == InitKeys /\ [][KeysNext]_vars

\* C34. At a check, a registered combination executes its action exactly
\* once if all of its keys are pressed and were not all pressed at the
\* check before (or it was registered since), and not at all otherwise,
\* whatever other combinations are registered and whichever of their keys
\* are pressed.
C34_CombinationFiresOnce ==
  [][CheckKeyCombinations =>
       \A i \in 1..Len(key_combinations) :
         LET combo == key_combinations[i]
             times == Cardinality({j \in 1..Len(executed') :
                                     executed'[j] = combo.action})
         IN times = IF combo.keys \subseteq keys_down
                       /\ combo.keys \notin was_complete
                    THEN 1 ELSE 0]_vars

\* C37. A generate_suggestions call that ends in an error, whether the
\* provider failed or the response could not be parsed, leaves the time of
\* the last request and the suggestion cache as they were.
C37_ErrorLeavesEngineUnchanged ==
  [][\A c \in Callers :
       (/\ eng[c].pc # "done" /\ eng'[c].pc = "done"
        /\ eng'[c].op \in GatedOps
        /\ HasError(eng'[c].result))
         => UNCHANGED <<elapsed_since_request, suggestion_cache>>]_vars

\* C39. The state is Active only while the system is running, and once
\* stop() has completed the system stays stopped and Idle and nothing is sent
\* to the overlay any more.
C39_StoppedStaysStopped ==
  [][/\ is_active' => is_running'
     /\ pc["main"] = "stopped"
          => /\ ~is_running' /\ ~is_active'
             /\ ~(UpdateSent \/ CreateSent)]_vars

\* ------------------------------------------ starting and stopping sensors
\*
\* Each sensor runs its loop in a thread of its own that start creates; a
\* loop thread leaves only when it tests its flag and finds it cleared.  The
\* keyboard library keeps, per hotkey, the handlers add_hotkey has given it.

\* The most loop threads of one sensor, and the most handlers of one hotkey,
\* that are followed.
MaxLoops == 2

MaxBound == 2

\* self.is_monitoring / self.is_listening / self.is_active = v
SetRunFlag(s, v) ==
  /\ is_monitoring' = IF s = "screen" THEN v ELSE is_monitoring
  /\ is_listening' = IF s = "audio" THEN v ELSE is_listening
  /\ keyboard_active' = IF s = "keyboard" THEN v ELSE keyboard_active

\* _register_default_hotkeys: register_hotkey for each default hotkey, which
\* hands the library one more handler and records the hotkey.
RegisterDefaultHotkeys ==
  /\ \A h \in HotkeyActions : bound[h] < MaxBound
  /\ bound' = [h \in HotkeyActions |-> bound[h] + 1]
  /\ hotkeys' = HotkeyActions

\* keyboard.remove_hotkey: the library drops one handler of the hotkey, if it
\* holds any (an error is logged otherwise).
RemoveHotkey(b, h) == [b EXCEPT ![h] = IF @ > 0 THEN @ - 1 ELSE 0]

\* start_monitoring / start_listening: nothing when the flag is set;
\* otherwise the flag is set and a new loop thread is started, and the
\* keyboard handler registers its default hotkeys.
StartSensor(s) ==
  /\ IF RunFlag(s)
     THEN UNCHANGED <<is_monitoring, is_listening, keyboard_active,
                      loop_threads, bound, hotkeys>>
     ELSE /\ loop_threads[s] < MaxLoops
          /\ SetRunFlag(s, TRUE)
          /\ loop_threads' = [loop_threads EXCEPT ![s] = @ + 1]
          /\ IF s = "keyboard"
             THEN RegisterDefaultHotkeys
             ELSE UNCHANGED <<bound, hotkeys>>
  /\ UNCHANGED <<callbacks, invoked>>

\* stop_monitoring / stop_listening: the flag is cleared.  The screen monitor
\* does nothing more.  The audio processor and the keyboard handler wait for
\* their thread for at most one second (joined: it left in that time), and
\* the keyboard handler first removes each recorded hotkey from the library
\* and clears its hotkeys and its callbacks.
StopSensor(s, joined) ==
  /\ joined => s # "screen" /\ loop_threads[s] > 0
  /\ SetRunFlag(s, FALSE)
  /\ loop_threads' = [loop_threads EXCEPT ![s] = IF joined THEN @ - 1 ELSE @]
  /\ IF s = "keyboard"
     THEN /\ bound' = [h \in HotkeyActions |->
                         IF h \in hotkeys THEN RemoveHotkey(bound, h)[h]
                         ELSE bound[h]]
          /\ hotkeys' = {}
          /\ callbacks' = {}
     ELSE UNCHANGED <<bound, hotkeys, callbacks>>
  /\ UNCHANGED invoked

\* pause_monitoring: the flag is cleared and nothing else.
PauseMonitoring ==
  /\ SetRunFlag("keyboard", FALSE)
  /\ UNCHANGED <<loop_threads, bound, hotkeys, callbacks, invoked>>

\* resume_monitoring: start_monitoring when the flag is clear.
ResumeMonitoring ==
  IF keyboard_active
  THEN UNCHANGED <<is_monitoring, is_listening, keyboard_active, loop_threads,
                   bound, hotkeys, callbacks, invoked>>
  ELSE StartSensor("keyboard")

\* A loop thread tests its flag, finds it cleared and leaves.
LoopExits(s) ==
  /\ ~RunFlag(s)
  /\ loop_threads[s] > 0
  /\ loop_threads' = [loop_threads EXCEPT ![s] = @ - 1]
  /\ UNCHANGED <<is_monitoring, is_listening, keyboard_active, bound, hotkeys,
                 callbacks, invoked>>

\* register_hotkey(hotkey, action, callback)
RegisterHotkey(h, with_callback) ==
  /\ bound[h] < MaxBound
  /\ bound' = [bound EXCEPT ![h] = @ + 1]
  /\ hotkeys' = hotkeys \cup {h}
  /\ callbacks' = IF with_callback THEN callbacks \cup {h} ELSE callbacks
  /\ UNCHANGED <<is_monitoring, is_listening, keyboard_active, loop_threads,
                 invoked>>

\* unregister_hotkey(hotkey)
UnregisterHotkey(h) ==
  /\ IF h \in hotkeys
     THEN /\ bound' = RemoveHotkey(bound, h)
          /\ hotkeys' = hotkeys \ {h}
          /\ callbacks' = callbacks \ {h}
     ELSE UNCHANGED <<bound, hotkeys, callbacks>>
  /\ UNCHANGED <<is_monitoring, is_listening, keyboard_active, loop_threads,
                 invoked>>

\* set_callback(action, callback)
SetCallback(action) ==
  /\ callbacks' = callbacks \cup {action}
  /\ UNCHANGED <<is_monitoring, is_listening, keyboard_active, loop_threads,
                 bound, hotkeys, invoked>>

\* The user presses a hotkey once: the library calls every handler it holds
\* for it, and each handler (_hotkey_callback) calls the action's callback if
\* there is one.
PressHotkey(h) ==
  /\ invoked' = [action |-> h,
                 times |-> IF h \in callbacks THEN bound[h] ELSE 0]
  /\ UNCHANGED <<is_monitoring, is_listening, keyboard_active, loop_threads,
                 bound, hotkeys, callbacks>>

RestartOnly ==
  UNCHANGED <<engineVars, historyVars, copilotVars, screen_context, overlay,
              pc, called, handlerVars, screenVars, cacheVars, loopVars,
              keyVars, sensor_pc, events, last_failure>>

InitRestart ==
  EngineInit /\ HistoryInit /\ AppInit /\ HandlerInit /\ ScreenInit /\ AuxInit

RestartNext ==
  \/ \E s \in Sensors : StartSensor(s) /\ RestartOnly
  \/ \E s \in Sensors : \E joined \in BOOLEAN :
       StopSensor(s, joined) /\ RestartOnly
  \/ PauseMonitoring /\ RestartOnly
  \/ ResumeMonitoring /\ RestartOnly
  \/ \E s \in Sensors : LoopExits(s) /\ RestartOnly

SpecRestart == InitRestart /\ [][RestartNext]_vars

\* C35. However a sensor is started and stopped, at most one of its loop
\* threads is alive.
C35_OneLoopPerSensor == \A s \in Sensors : loop_threads[s] <= 1

InitKeyboard ==
  EngineInit /\ HistoryInit /\ AppInit /\ HandlerInit /\ ScreenInit /\ AuxInit

KeyboardNext ==
  \/ StartSensor("keyboard") /\ RestartOnly
  \/ \E joined \in BOOLEAN : StopSensor("keyboard", joined) /\ RestartOnly
  \/ PauseMonitoring /\ RestartOnly
  \/ ResumeMonitoring /\ RestartOnly
  \/ LoopExits("keyboard") /\ RestartOnly
  \/ \E h \in HotkeyActions : \E with_callback \in BOOLEAN :
       RegisterHotkey(h, with_callback) /\ RestartOnly
  \/ \E h \in HotkeyActions : UnregisterHotkey(h) /\ RestartOnly
  \/ \E action \in HotkeyActions : SetCallback(action) /\ RestartOnly
  \/ \E h \in HotkeyActions : PressHotkey(h) /\ RestartOnly

SpecKeyboard == InitKeyboard /\ [][KeyboardNext]_vars

\* C36. Whatever the keyboard handler has been asked to do, the library
\* holds at most one handler for each hotkey, one press of a registered
\* hotkey whose action has a callback calls that callback exactly once, and
\* no operation takes away a callback that was installed.
C36_HotkeyFiresOnce ==
  [][/\ \A h \in HotkeyActions : bound[h] <= 1
     /\ \A h \in HotkeyActions :
          (PressHotkey(h) /\ h \in hotkeys /\ h \in callbacks)
            => invoked'.times = 1
     /\ callbacks \subseteq callbacks']_vars

====
